---- MODULE Spec2Model ----
(***************************************************************************)
(* Decision core of the Griduniverse stag-hunt bots                        *)
(* (src/dlgr/griduniverse/bots.py).                                        *)
(*                                                                         *)
(* Numbers.  The program computes with IEEE doubles.  Here a probability   *)
(* or a belief mass p is the integer round-down of p * Scale, and the      *)
(* value of math.exp / np.exp is the integer round-down of exp(x) *        *)
(* ExpScale.  Sums therefore equal 1 only up to a few units of 1/Scale,    *)
(* as the doubles do up to a few ulps; every statement about a sum or a    *)
(* bound names the tolerance it allows.                                    *)
(*                                                                         *)
(* Errors.  A Python exception that leaves get_next_key is not caught by   *)
(* participate (only StaleElementReferenceException and AttributeError     *)
(* are), so it ends the bot: err records its name and no further tick      *)
(* happens.                                                                *)
(***************************************************************************)
EXTENDS Integers, Sequences, FiniteSets, TLC

VARIABLES
    \* ---- normalize applied to one input (pure function) ----
    norm_variant,   \* which class's normalize is applied
    norm_in,        \* the list handed to normalize
    norm_out,       \* its result, or NotRun
    \* ---- the snapshot the bot reads (self.state) ----
    state,          \* [players: id -> cell, items: list of <<item_id, cell>>, walls: set of cells]
    \* ---- BaseGridUniverseBot.distance / distances ----
    _maze,          \* self._maze, or NoAttr before the first query
    _graph,         \* self._graph, or NoAttr before the first query
    builds,         \* how many times positions_to_maze / maze_to_graph have run
    queries,        \* how many distance()/distances() calls have been made
    last_query,     \* <<origin, endpoint>> of the last distance() call, or <<>>
    last_result,    \* what that call returned
    \* ---- the inference bots (one bot instance) ----
    bot_policy,                 \* the class of the bot
    player_id,                  \* self.player_id, the bot's own id in the snapshot
    player_probabilities,       \* id -> probability vector
    previous_player_positions,  \* id -> cell
    initialized_probabilities,
    iterations,
    belief,                     \* id -> belief grid (cell -> mass)
    initialized_belief,
    idx2animal,                 \* the item ids seen by initialize_probabilities
    team_goal,                  \* [stag, hare]
    visible_players,            \* what get_observation returned in the last tick
    next_move,                  \* what get_next_key returned in the last tick
    err,                        \* <<>>, or <<exception, method>> once one has escaped
    rounds,                     \* how many rounds of participate's loop have run
    published,                  \* the messages send_next_key published in the last tick
    \* ---- one method applied to one input (pure functions) ----
    call,           \* the method applied, or "none" before the call
    call_args,      \* the arguments of the call
    call_result,    \* what the call returned
    \* ---- participate and the handlers of a high-performance bot ----
    pc,                 \* where participate is
    _quorum_reached,
    _skip_experiment,
    grid,               \* self.grid: unassigned, or the dict the handlers update
    handled,            \* the data last given to on_signup or to a handler
    stopped             \* a stop message was handled, and no state message since
                        \* has put remaining_time above a quarter of a second

norm_vars == <<norm_variant, norm_in, norm_out>>
dist_vars == <<_maze, _graph, builds, queries, last_query, last_result>>

bot_vars == <<bot_policy, player_id, player_probabilities, previous_player_positions,
              initialized_probabilities, iterations, belief, initialized_belief,
              idx2animal, team_goal, visible_players, next_move, err, rounds,
              published>>

call_vars == <<call, call_args, call_result>>

life_vars == <<pc, _quorum_reached, _skip_experiment, grid, handled, stopped>>

vars == <<norm_vars, state, dist_vars, bot_vars, call_vars, life_vars>>

\* ------------------------------------------------------------------ bounds
MaxLen == 3
MaxWeight == 3
\* the board
Rows == 2
Cols == 3
\* how many wall cells a snapshot may hold
MaxWalls == 2
\* how many distance()/distances() calls one run makes
MaxQueries == 2
\* the iteration budgets, 0..ProbeBudget, at which an exhausted search is examined
ProbeBudget == 3
\* the visibility (sigma of the detection model) the game is configured with
Visibility == 2
\* how many ticks a bot that sees the whole board is followed for
MaxTicks == 3
\* how many ticks a bot that observes through get_observation is followed
\* for after its warm-up
MaxObservations == 2
\* how many cells of a grid handed to the belief updates hold mass
MaxSupport == 2
\* the hypotheses handed to infer_intention lie Near or Far from the corner
Near == 5
Far == 41
\* how many steps an agent whose intention is inferred is followed for
MaxUpdates == 2
\* the number of players that makes the quorum
Quorum == 2
\* how many ticks in a row an agent that was detected goes undetected for
MaxUndetected == 2

\* ----------------------------------------------------------- fixed point
Scale == 100 * 100
ExpScale == 10 * 100
\* epsilon = 0.02 as a fraction EpsNum / EpsDen
EpsNum == 1
EpsDen == 50
Epsilon == (Scale * EpsNum) \div EpsDen

NotRun == [ok |-> FALSE, e |-> "not run", v |-> <<>>]
Ok(v) == [ok |-> TRUE, e |-> "", v |-> v]
Raise(e) == [ok |-> FALSE, e |-> e, v |-> <<>>]

RECURSIVE SumSeq(_)
SumSeq(s) == IF s = <<>> THEN 0 ELSE Head(s) + SumSeq(Tail(s))

Min2(a, b) == IF a < b THEN a ELSE b
Max2(a, b) == IF a > b THEN a ELSE b
Abs(a) == IF a < 0 THEN -a ELSE a

\* A list or a grid written [i \in S |-> e] is a rule; List and Grid give
\* the same list or grid with every entry computed, once.
List(s) == SubSeq(s, 1, Len(s))
Grid(g) == g @@ <<>>

\* x / total for a list of numbers, in units of 1/Scale
DivideAll(prob_list, total) ==
    List([i \in 1..Len(prob_list) |-> (prob_list[i] * Scale) \div total])

\* a mutant of Clamp: the lower bound is dropped
ClampUpperOnly(prob_list) ==
    List([i \in 1..Len(prob_list) |-> Min2(prob_list[i], Scale - Epsilon)])

\* [max(min(v, 1 - epsilon), epsilon) for v in prob_list]
Clamp(prob_list) ==
    List([i \in 1..Len(prob_list) |-> Max2(Min2(prob_list[i], Scale - Epsilon), Epsilon)])

\* GeneralizedProbabilisticBot.normalize and
\* PartialObsGeneralizedProbabilisticBot.normalize (the same text).
\* The argument is a list of non-negative numbers in any common unit.
normalize(prob_list) ==
    LET total == SumSeq(prob_list) IN
    IF total = 0
    THEN IF Len(prob_list) = 0
         THEN Raise("ZeroDivisionError")
         ELSE Ok(List([i \in 1..Len(prob_list) |-> Scale \div Len(prob_list)]))
    ELSE LET clamped == Clamp(DivideAll(prob_list, total))
         IN  Ok(DivideAll(clamped, SumSeq(clamped)))

\* ProbabilisticBot.normalize: a zero total gives three entries whatever the length
ProbabilisticBot_normalize(arr) ==
    LET total == SumSeq(arr) IN
    IF total = 0
    THEN Ok(<<Scale \div 3, Scale \div 3, Scale \div 3>>)
    ELSE LET clamped == Clamp(DivideAll(arr, total))
         IN  Ok(DivideAll(clamped, SumSeq(clamped)))

NormVariants == {"ProbabilisticBot", "GeneralizedProbabilisticBot",
                 "PartialObsGeneralizedProbabilisticBot"}

NormalizeOf(variant, arr) ==
    IF variant = "ProbabilisticBot" THEN ProbabilisticBot_normalize(arr)
    ELSE normalize(arr)

\* ------------------------------------------------------------- the board
Cells == (0..(Rows - 1)) \X (0..(Cols - 1))

\* an attribute that was never assigned (reading it raises AttributeError);
\* an assigned attribute x is held as <<x>>
NoAttr == <<>>

\* BaseGridUniverseBot.manhattan_distance
manhattan_distance(coord1, coord2) ==
    Abs(coord1[1] - coord2[1]) + Abs(coord1[2] - coord2[2])

\* BaseGridUniverseBot.wall_positions
wall_positions == state.walls

\* ------------------------------------------------ maze_utils (not in src/)
\* positions_to_maze(wall_positions, rows, columns): the board with its walls
positions_to_maze(walls, rows, columns) ==
    [rows |-> rows, columns |-> columns,
     walls |-> {w \in walls : w[1] \in 0..(rows - 1) /\ w[2] \in 0..(columns - 1)}]

FreeCells(maze) ==
    {c \in (0..(maze.rows - 1)) \X (0..(maze.columns - 1)) : c \notin maze.walls}

\* the four cardinal moves, in the order a node's neighbours are expanded
Cardinals == <<"N", "S", "E", "W">>

Move(cell, d) ==
    CASE d = "N" -> <<cell[1] - 1, cell[2]>>
      [] d = "S" -> <<cell[1] + 1, cell[2]>>
      [] d = "E" -> <<cell[1], cell[2] + 1>>
      [] d = "W" -> <<cell[1], cell[2] - 1>>

\* a mutant of maze_to_graph: walls are not excluded from the neighbours
maze_to_graph_through_walls(maze) ==
    [c \in FreeCells(maze) |->
        {Move(c, Cardinals[k]) : k \in 1..4} \cap ((0..(maze.rows - 1)) \X (0..(maze.columns - 1)))]

\* maze_to_graph(maze): free cell -> its in-bounds, non-wall 4-neighbours
maze_to_graph(maze) ==
    [c \in FreeCells(maze) |-> {Move(c, Cardinals[k]) : k \in 1..4} \cap FreeCells(maze)]

Failure == [found |-> FALSE, length |-> 0, moves |-> <<>>]
Found(g, moves) == [found |-> TRUE, length |-> g, moves |-> moves]

\* index of the first entry of open with the least f = g + h (FIFO among equals)
RECURSIVE FirstBest(_, _, _)
FirstBest(open, i, best) ==
    IF i > Len(open) THEN best
    ELSE FirstBest(open, i + 1, IF open[i].f < open[best].f THEN i ELSE best)

RemoveAt(s, i) == SubSeq(s, 1, i - 1) \o SubSeq(s, i + 1, Len(s))

RECURSIVE Successors(_, _, _, _, _)
Successors(graph, node, goal, closed, k) ==
    IF k > 4 THEN <<>>
    ELSE LET nb == Move(node.cell, Cardinals[k])
             rest == Successors(graph, node, goal, closed, k + 1)
         IN  IF nb \in graph[node.cell] /\ nb \notin closed
             THEN <<[cell |-> nb, g |-> node.g + 1,
                     f |-> node.g + 1 + manhattan_distance(nb, goal),
                     moves |-> Append(node.moves, Cardinals[k])]>> \o rest
             ELSE rest

RECURSIVE AStarLoop(_, _, _, _, _)
AStarLoop(graph, goal, open, closed, budget) ==
    IF open = <<>> \/ budget = 0 THEN Failure
    ELSE LET b == FirstBest(open, 1, 1)
             node == open[b]
             rest == RemoveAt(open, b)
         IN  IF node.cell = goal THEN Found(node.g, node.moves)
             ELSE IF node.cell \in closed
             THEN AStarLoop(graph, goal, rest, closed, budget - 1)
             ELSE AStarLoop(graph, goal,
                            rest \o Successors(graph, node, goal, closed \cup {node.cell}, 1),
                            closed \cup {node.cell}, budget - 1)

\* find_path_astar(maze, origin, goal, max_iterations, graph)
find_path_astar(maze, origin, goal, max_iterations, graph) ==
    IF origin \notin DOMAIN graph \/ goal \notin DOMAIN graph THEN Failure
    ELSE AStarLoop(graph, goal,
                   <<[cell |-> origin, g |-> 0, f |-> manhattan_distance(origin, goal),
                      moves |-> <<>>]>>,
                   {}, max_iterations)

\* ------------------------------------------- BaseGridUniverseBot.distance
MAX_ITERATIONS == 10000

\* a mutant of translate_directions: east and west are swapped
translate_directions_swapped(directions) ==
    [i \in 1..Len(directions) |->
        CASE directions[i] = "N" -> "UP"
          [] directions[i] = "S" -> "DOWN"
          [] directions[i] = "E" -> "LEFT"
          [] directions[i] = "W" -> "RIGHT"]

\* BaseGridUniverseBot.translate_directions
translate_directions(directions) ==
    [i \in 1..Len(directions) |->
        CASE directions[i] = "N" -> "UP"
          [] directions[i] = "S" -> "DOWN"
          [] directions[i] = "E" -> "RIGHT"
          [] directions[i] = "W" -> "LEFT"]

\* (None, []): is_none marks a distance of None
NoRoute == [is_none |-> TRUE, distance |-> 0, directions |-> <<>>]

\* a mutant of distance_result: a failed search is reported as distance 0
distance_result_zero(result) ==
    IF result.found
    THEN [is_none |-> FALSE, distance |-> result.length,
          directions |-> translate_directions(result.moves)]
    ELSE [is_none |-> FALSE, distance |-> 0, directions |-> <<>>]

\* the tail of distance(): `if result: ... else: return None, []`
distance_result(result) ==
    IF result.found
    THEN [is_none |-> FALSE, distance |-> result.length,
          directions |-> translate_directions(result.moves)]
    ELSE NoRoute

\* a mutant of NeedsBuild: the pair is built on every call
AlwaysBuild == TRUE

\* the head of distance(): the cached pair, built when the attribute is missing
NeedsBuild == _maze = NoAttr

MazeForQuery ==
    IF NeedsBuild THEN positions_to_maze(wall_positions, Rows, Cols) ELSE _maze[1]

GraphForQuery ==
    IF NeedsBuild THEN maze_to_graph(MazeForQuery) ELSE _graph[1]

\* what distance(origin, endpoint) returns in the current state
distance(origin, endpoint) ==
    distance_result(find_path_astar(MazeForQuery, origin, endpoint, MAX_ITERATIONS, GraphForQuery))

\* the move a key makes (get_expected_position, before its wall and player checks)
KeyStep(pos, key) ==
    CASE key = "UP" -> <<pos[1] - 1, pos[2]>>
      [] key = "DOWN" -> <<pos[1] + 1, pos[2]>>
      [] key = "LEFT" -> <<pos[1], pos[2] - 1>>
      [] key = "RIGHT" -> <<pos[1], pos[2] + 1>>
      [] OTHER -> pos

\* ------------------------------------------------- specification: distance
WallSets == {w \in SUBSET Cells : Cardinality(w) <= MaxWalls}

IdleNorm ==
    /\ norm_variant = "ProbabilisticBot"
    /\ norm_in = <<>>
    /\ norm_out = NotRun

IdleDist ==
    /\ _maze = NoAttr
    /\ _graph = NoAttr
    /\ builds = 0
    /\ queries = 0
    /\ last_query = <<>>
    /\ last_result = NoRoute

\* a bot as __init__ leaves it
NoErr == <<>>

IdleBot ==
    /\ bot_policy = "GeneralizedProbabilisticBot"
    /\ player_id = 1
    /\ player_probabilities = <<>>
    /\ previous_player_positions = <<>>
    /\ initialized_probabilities = FALSE
    /\ iterations = 0
    /\ belief = <<>>
    /\ initialized_belief = FALSE
    /\ idx2animal = <<>>
    /\ team_goal = [stag |-> Scale \div 2, hare |-> Scale \div 2]
    /\ visible_players = <<>>
    /\ next_move = "None"
    /\ err = NoErr
    /\ rounds = 0
    /\ published = <<>>

IdleCall ==
    /\ call = "none"
    /\ call_args = <<>>
    /\ call_result = NotRun

\* a bot whose participate has not been started
IdleLife ==
    /\ pc = "idle"
    /\ _quorum_reached = FALSE
    /\ _skip_experiment = FALSE
    /\ grid = NoAttr
    /\ handled = <<>>
    /\ stopped = FALSE

\* the snapshots of this specification: any walls; one player, on any free
\* cell; no item, or one item on the last free cell
LastFree(w) ==
    CHOOSE c \in Cells \ w : \A o \in Cells \ w : c[1] * Cols + c[2] >= o[1] * Cols + o[2]

DistInit ==
    /\ IdleLife
    /\ IdleNorm
    /\ IdleDist
    /\ IdleBot
    /\ IdleCall
    /\ \E w \in WallSets, p \in Cells :
          /\ p \notin w
          /\ \/ state = [players |-> (1 :> p), items |-> <<>>, walls |-> w]
             \/ state = [players |-> (1 :> p), items |-> <<<<"stag", LastFree(w)>>>>, walls |-> w]

\* the effect of a call of distance() on the bot: the pair is cached
CachePair ==
    /\ _maze' = <<MazeForQuery>>
    /\ _graph' = <<GraphForQuery>>
    /\ builds' = IF NeedsBuild THEN builds + 1 ELSE builds

\* one call of distance(origin, endpoint)
DistanceCall(origin, endpoint) ==
    /\ queries < MaxQueries
    /\ CachePair
    /\ queries' = queries + 1
    /\ last_query' = <<origin, endpoint>>
    /\ last_result' = distance(origin, endpoint)
    /\ UNCHANGED <<norm_vars, state, bot_vars, call_vars, life_vars>>

\* the bot asks for the way from a player's cell to any cell
Distance ==
    \E id \in DOMAIN state.players, endpoint \in Cells :
        DistanceCall(state.players[id], endpoint)

\* one call of distances(): distance() for every player and every item, so
\* nothing happens to the bot when there is no player or no item
Distances ==
    /\ queries < MaxQueries
    /\ queries' = queries + 1
    /\ IF DOMAIN state.players # {} /\ state.items # <<>>
       THEN CachePair
       ELSE UNCHANGED <<_maze, _graph, builds>>
    /\ UNCHANGED <<norm_vars, state, last_query, last_result, bot_vars, call_vars, life_vars>>

DistNext == Distance \/ Distances

SpecDistance == DistInit /\ [][DistNext]_vars

\* ------------------------------- specification: distance as the walls change
\* handle_state merges a grid with other walls into the dict that self.state
\* is: the walls of the state change, the players stay on free cells
WallsUpdate ==
    /\ \E w \in WallSets :
          /\ w # state.walls
          /\ \A id \in DOMAIN state.players : state.players[id] \notin w
          /\ \A k \in 1..Len(state.items) : state.items[k][2] \notin w
          /\ state' = [state EXCEPT !.walls = w]
    /\ UNCHANGED <<norm_vars, dist_vars, bot_vars, call_vars, life_vars>>

WallsNext == Distance \/ Distances \/ WallsUpdate

SpecWalls == DistInit /\ [][WallsNext]_vars

\* ------------------------------------------------ specification: normalize
RECURSIVE SeqsUpTo(_, _)
SeqsUpTo(S, n) ==
    IF n = 0 THEN {<<>>}
    ELSE LET shorter == SeqsUpTo(S, n - 1)
         IN  shorter \cup {Append(s, x) : s \in {t \in shorter : Len(t) = n - 1}, x \in S}

NormInit ==
    /\ IdleLife
    /\ IdleDist
    /\ IdleBot
    /\ IdleCall
    /\ state = [players |-> <<>>, items |-> <<>>, walls |-> {}]
    /\ norm_variant \in NormVariants
    /\ norm_in \in SeqsUpTo(0..MaxWeight, MaxLen)
    /\ norm_out = NotRun

ApplyNormalize ==
    /\ norm_out = NotRun
    /\ norm_out' = NormalizeOf(norm_variant, norm_in)
    /\ UNCHANGED <<norm_variant, norm_in, state, dist_vars, bot_vars, call_vars, life_vars>>

NormNext == ApplyNormalize

SpecNormalize == NormInit /\ [][NormNext]_vars

\* ------------------------------------------------------------ math.exp
\* alpha = 0.05 as a fraction AlphaNum / AlphaDen
AlphaNum == 1
AlphaDen == 20

\* e^k in units of 1/ExpScale, k = 0, 1, 2, ...
RECURSIVE EPow(_)
EPow(k) == IF k = 0 THEN ExpScale ELSE (EPow(k - 1) * 2718) \div 1000

\* the series 1 + x + x^2/2 + ... for x = n/d in [0, 1), from the given term on
RECURSIVE Taylor(_, _, _, _)
Taylor(term, n, d, j) ==
    IF term = 0 THEN 0 ELSE term + Taylor((term * n) \div (d * j), n, d, j + 1)

ExpPos(n, d) == (EPow(n \div d) * Taylor(ExpScale, n % d, d, 1)) \div ExpScale

\* math.exp(n / d) and np.exp(n / d), d > 0, in units of 1/ExpScale
math_exp(n, d) ==
    IF n < 0 THEN (ExpScale * ExpScale) \div ExpPos(-n, d) ELSE ExpPos(n, d)

\* ------------------------------------------------------- the bot as a value
\* The methods below are functions from the bot (its snapshot and its
\* attributes, as one record) to the bot they leave behind; err # NoErr
\* means an exception is propagating and nothing more is done.
Self ==
    [state |-> state, player_id |-> player_id,
     player_probabilities |-> player_probabilities,
     previous_player_positions |-> previous_player_positions,
     initialized_probabilities |-> initialized_probabilities,
     iterations |-> iterations, belief |-> belief,
     initialized_belief |-> initialized_belief, idx2animal |-> idx2animal,
     team_goal |-> team_goal, visible_players |-> visible_players,
     next_move |-> next_move, err |-> err]

\* the bot after an exception e has left method m
Raised(b, e, m) == [b EXCEPT !.err = <<e, m>>]

\* None, and a value that is not None
None == <<>>
Some(x) == <<x>>

\* BaseGridUniverseBot.player_positions, animal_positions, my_position
player_positions(b) == b.state.players
animal_positions(b) == b.state.items
my_position(b) ==
    IF b.player_id \in DOMAIN player_positions(b) THEN player_positions(b)[b.player_id]
    ELSE None

\* the ids of a dict in the order the loops visit them (ascending id)
RECURSIVE SortedIds(_)
SortedIds(S) ==
    IF S = {} THEN <<>>
    ELSE LET m == CHOOSE x \in S : \A y \in S : x <= y
         IN  <<m>> \o SortedIds(S \ {m})

ToSet(s) == {s[k] : k \in 1..Len(s)}

\* the id the inference bots take to be their own: `if player_id == 1: continue`
SkippedId == 1

\* [initial_prob] * total_animals
Uniform(total_animals) == List([i \in 1..total_animals |-> Scale \div total_animals])

\* GeneralizedProbabilisticBot.initialize_probabilities
initialize_probabilities(b) ==
    IF DOMAIN player_positions(b) = {} \/ animal_positions(b) = <<>> THEN b
    ELSE [b EXCEPT !.player_probabilities =
                        Grid([id \in DOMAIN player_positions(b) \ {SkippedId} |->
                                Uniform(Len(animal_positions(b)))]) @@ @,
                   !.initialized_probabilities = TRUE]

\* a mutant of Exponentials: the reward has the sign of the movement delta
ExponentialsAway(items, position, previous_position) ==
    LET current_distance(i) == manhattan_distance(position, items[i][2])
        total_distance == SumSeq([i \in 1..Len(items) |-> current_distance(i)])
        movement_deltas(i) ==
            current_distance(i) - manhattan_distance(previous_position, items[i][2])
    IN  List([i \in 1..Len(items) |->
            IF current_distance(i) # 0
            THEN math_exp(movement_deltas(i) * total_distance * AlphaNum,
                          current_distance(i) * AlphaDen)
            ELSE math_exp(movement_deltas(i) * total_distance * AlphaNum, AlphaDen)])

\* math.exp(self.alpha * rewards[i]) for every animal i
Exponentials(items, position, previous_position) ==
    LET current_distance(i) == manhattan_distance(position, items[i][2])
        total_distance == SumSeq([i \in 1..Len(items) |-> current_distance(i)])
        movement_deltas(i) ==
            current_distance(i) - manhattan_distance(previous_position, items[i][2])
    IN  List([i \in 1..Len(items) |->
            IF current_distance(i) # 0
            THEN math_exp(-movement_deltas(i) * total_distance * AlphaNum,
                          current_distance(i) * AlphaDen)
            ELSE math_exp(-movement_deltas(i) * total_distance * AlphaNum, AlphaDen)])

\* new_probabilities: prob[i] * exponentials[i] / lhood_denom for every animal
new_probabilities(items, prob, exponentials) ==
    List([i \in 1..Len(items) |->
            (prob[i] * ((exponentials[i] * Scale) \div SumSeq(exponentials))) \div Scale])

\* the last loop of infer_intention and its normalize
Posterior(items, prob, exponentials) ==
    LET lhood_denom == SumSeq(exponentials) IN
    IF lhood_denom = 0 THEN normalize(<<>>)
    ELSE IF Len(prob) < Len(items) THEN Raise("IndexError")
    ELSE normalize(new_probabilities(items, prob, exponentials))

\* PartialObsGeneralizedProbabilisticBot.infer_intention
infer_intention(items, current_position, previous_position, prob) ==
    Posterior(items, prob, Exponentials(items, current_position, previous_position))

\* the same lines in GeneralizedProbabilisticBot.update_probabilities, where
\* the player's vector is looked up only once the exponentials are known
GeneralizedPosterior(b, id, exponentials) ==
    IF SumSeq(exponentials) = 0 THEN normalize(<<>>)
    ELSE IF id \notin DOMAIN b.player_probabilities THEN Raise("KeyError")
    ELSE Posterior(animal_positions(b), b.player_probabilities[id], exponentials)

\* the two assignments that end an update, or the exception leaving method m
Assign(b, id, position, r, m) ==
    IF r.ok
    THEN [b EXCEPT !.player_probabilities = (id :> r.v) @@ @,
                   !.previous_player_positions = (id :> position) @@ @]
    ELSE Raised(b, r.e, m)

\* a mutant of HasNotMoved: the update is never skipped
NeverStill(previous_position, position) == FALSE

\* `if previous_position == position: continue`
HasNotMoved(previous_position, position) == previous_position = position

\* one round of the loop of GeneralizedProbabilisticBot.update_probabilities
UpdatePlayer(b, id) ==
    IF id = SkippedId THEN b
    ELSE IF id \notin DOMAIN b.previous_player_positions
    THEN [b EXCEPT !.previous_player_positions = (id :> player_positions(b)[id]) @@ @]
    ELSE IF HasNotMoved(b.previous_player_positions[id], player_positions(b)[id]) THEN b
    ELSE Assign(b, id, player_positions(b)[id],
                GeneralizedPosterior(b, id,
                    Exponentials(animal_positions(b), player_positions(b)[id],
                                 b.previous_player_positions[id])),
                "update_probabilities")

RECURSIVE UpdateLoop(_, _)
UpdateLoop(b, ids) ==
    IF ids = <<>> \/ b.err # NoErr THEN b
    ELSE UpdateLoop(UpdatePlayer(b, Head(ids)), Tail(ids))

\* GeneralizedProbabilisticBot.update_probabilities
update_probabilities(b) ==
    IF DOMAIN player_positions(b) = {} \/ animal_positions(b) = <<>> THEN b
    ELSE UpdateLoop(b, SortedIds(DOMAIN player_positions(b)))
\* max(probabilities), min(probabilities) and probabilities.index(x),
\* counted from 1
MaxOf(probabilities) ==
    CHOOSE m \in ToSet(probabilities) : \A i \in 1..Len(probabilities) : probabilities[i] <= m

MinOf(probabilities) ==
    CHOOSE m \in ToSet(probabilities) : \A i \in 1..Len(probabilities) : probabilities[i] >= m

IndexOf(probabilities, x) ==
    CHOOSE i \in 1..Len(probabilities) :
        probabilities[i] = x /\ \A j \in 1..(i - 1) : probabilities[j] # x

BestIndex(probabilities) == IndexOf(probabilities, MaxOf(probabilities))

\* min(indexes, key=distance from pos to the animal): the first of the nearest
Closest(b, pos, indexes) ==
    LET d(k) == manhattan_distance(pos, animal_positions(b)[indexes[k]][2])
    IN  indexes[CHOOSE k \in 1..Len(indexes) :
                    \A j \in 1..Len(indexes) : d(k) < d(j) \/ (d(k) = d(j) /\ k <= j)]

\* min(indexes, key=...) of a list that is not empty: manhattan_distance
\* subscripts pos, which raises if my_position gave None
Nearest(b, pos, indexes) ==
    IF pos = None THEN Raise("TypeError") ELSE Ok(Closest(b, pos, indexes))

\* the ids decide_action looks at, in order
TargetIds(b) ==
    LET NotSkipped(id) == id # SkippedId
    IN  SelectSeq(SortedIds(DOMAIN b.player_probabilities), NotSkipped)

\* the indexes among best_targets whose animal is of the given type
TargetsOfType(b, ids, type) ==
    LET Wanted(id) ==
            animal_positions(b)[BestIndex(b.player_probabilities[id])][1] = type
    IN  List([k \in 1..Len(SelectSeq(ids, Wanted)) |->
                BestIndex(b.player_probabilities[SelectSeq(ids, Wanted)[k]])])

\* [idx for idx in range(len(animal_types)) if animal_types[idx] == 'hare'
\*  and idx not in hare_targets]
AvailableHares(b, hare_targets) ==
    LET Free(idx) == animal_positions(b)[idx][1] = "hare" /\ idx \notin ToSet(hare_targets)
    IN  SelectSeq([i \in 1..Len(animal_positions(b)) |-> i], Free)

\* a mutant of PickHare: a targeted hare is preferred to an untargeted one
PickHareTargetedFirst(b, pos, hare_targets, available_hares) ==
    IF hare_targets # <<>> THEN Nearest(b, pos, hare_targets)
    ELSE IF available_hares # <<>> THEN Nearest(b, pos, available_hares)
    ELSE Raise("ValueError")

\* the end of decide_action: an untargeted hare, else a targeted one
PickHare(b, pos, hare_targets, available_hares) ==
    IF available_hares # <<>> THEN Nearest(b, pos, available_hares)
    ELSE IF hare_targets # <<>> THEN Nearest(b, pos, hare_targets)
    ELSE Raise("ValueError")

\* a mutant of PickTarget: the nearest of all the stags of the snapshot
PickTargetAmongAllStags(b, pos, for_stag, stag_targets, hare_targets) ==
    LET IsStag(idx) == animal_positions(b)[idx][1] = "stag" IN
    IF for_stag /\ stag_targets # <<>>
    THEN Nearest(b, pos, SelectSeq([i \in 1..Len(animal_positions(b)) |-> i], IsStag))
    ELSE PickHare(b, pos, hare_targets, AvailableHares(b, hare_targets))

\* the choice among the targets: a stag if one is a target and the bot is
\* for it, else a hare
PickTarget(b, pos, for_stag, stag_targets, hare_targets) ==
    IF for_stag /\ stag_targets # <<>> THEN Nearest(b, pos, stag_targets)
    ELSE PickHare(b, pos, hare_targets, AvailableHares(b, hare_targets))

\* the exception the loop of decide_action raises first, if any: max() of an
\* empty list, or a best index beyond the animal list
TargetError(b, ids) ==
    LET Empty(id) == b.player_probabilities[id] = <<>>
        Bad(id) == \/ Empty(id)
                   \/ BestIndex(b.player_probabilities[id]) > Len(animal_positions(b))
    IN  IF SelectSeq(ids, Bad) = <<>> THEN ""
        ELSE IF Empty(SelectSeq(ids, Bad)[1]) THEN "ValueError" ELSE "IndexError"

\* GeneralizedProbabilisticBot.decide_action: the index (from 1) of the
\* animal to go for, or the exception
decide_action(b) ==
    IF TargetError(b, TargetIds(b)) # "" THEN Raise(TargetError(b, TargetIds(b)))
    ELSE PickTarget(b, my_position(b), TRUE,
                    TargetsOfType(b, TargetIds(b), "stag"),
                    TargetsOfType(b, TargetIds(b), "hare"))

\* a mutant of move_towards: the rows are compared the other way round
move_towards_rows_swapped(current_position, target_position) ==
    LET options ==
            (IF target_position[1] > current_position[1] THEN {"UP"} ELSE {})
            \cup (IF target_position[1] < current_position[1] THEN {"DOWN"} ELSE {})
            \cup (IF target_position[2] > current_position[2] THEN {"RIGHT"} ELSE {})
            \cup (IF target_position[2] < current_position[2] THEN {"LEFT"} ELSE {})
    IN  IF options # {} THEN options ELSE {"SPACE"}

\* GeneralizedProbabilisticBot.move_towards: the keys random.choice picks from
move_towards(current_position, target_position) ==
    LET options ==
            (IF target_position[1] > current_position[1] THEN {"DOWN"} ELSE {})
            \cup (IF target_position[1] < current_position[1] THEN {"UP"} ELSE {})
            \cup (IF target_position[2] > current_position[2] THEN {"RIGHT"} ELSE {})
            \cup (IF target_position[2] < current_position[2] THEN {"LEFT"} ELSE {})
    IN  IF options # {} THEN options ELSE {"SPACE"}

\* what a call of get_next_key leaves: the bot, and the keys it may return
Returns(b, keys) == [bot |-> b, keys |-> keys]
Escapes(b) == [bot |-> b, keys |-> {b.next_move}]

\* the end of GeneralizedProbabilisticBot.get_next_key
MoveToTarget(b, best_target) ==
    IF ~best_target.ok THEN Escapes(Raised(b, best_target.e, "decide_action"))
    ELSE Returns([b EXCEPT !.iterations = @ + 1],
                 move_towards(my_position(b), animal_positions(b)[best_target.v][2]))

DecideAndMove(b) ==
    IF b.err # NoErr THEN Escapes(b) ELSE MoveToTarget(b, decide_action(b))

\* GeneralizedProbabilisticBot.get_next_key on the snapshot b.state
GeneralizedProbabilisticBot_get_next_key(b) ==
    DecideAndMove(update_probabilities(
        IF b.initialized_probabilities THEN b ELSE initialize_probabilities(b)))
\* ------------------------------- PartialObsGeneralizedProbabilisticBot
\* `if self.iterations < 3`: the ticks in which get_next_key only counts
WarmUp == 3

\* config.get("rows"), config.get("columns"), config.get("visibility")
n_row == Rows
n_col == Cols
visibility == Visibility

\* the cells of the board in row-major order
CellSeq == List([k \in 1..(n_row * n_col) |-> <<(k - 1) \div n_col, (k - 1) % n_col>>])

\* get_gaussian_detect_prob(d, sigma), in units of 1/ExpScale
get_gaussian_detect_prob(d, sigma) == math_exp(-(d * d), 2 * sigma * sigma)

\* p_detect for every distance on the board
DetectProb == Grid([d \in 0..(n_row + n_col) |-> get_gaussian_detect_prob(d, visibility)])

\* get_observation: every outcome the random draws allow.  np.random.rand()
\* lies in [0, 1), so a player is missed only if p_detect < 1 and seen only
\* if p_detect > 0.
Observations(b) ==
    LET p_detect(id) ==
            DetectProb[manhattan_distance(my_position(b), player_positions(b)[id])]
    IN  IF my_position(b) = None THEN {<<>>} ELSE
        {o \in [DOMAIN player_positions(b) \ {SkippedId} -> {None} \cup {Some(c) : c \in Cells}] :
            \A id \in DOMAIN o :
                \/ o[id] = Some(player_positions(b)[id]) /\ p_detect(id) > 0
                \/ o[id] = None /\ p_detect(id) < ExpScale}

\* np.ones((n_row, n_col)) / (n_row * n_col)
UniformGrid == Grid([c \in Cells |-> Scale \div (n_row * n_col)])

\* init_belief_state
init_belief_state(b) ==
    [b EXCEPT !.belief = [id \in DOMAIN player_positions(b) \ {SkippedId} |-> UniformGrid] @@ @,
              !.initialized_belief = TRUE]

\* a mutant of adjacency_list: a cell is not its own neighbour
adjacency_list_without_stay ==
    Grid([c \in Cells |->
        {<<c[1] + d[1], c[2] + d[2]>> :
            d \in {<<1, 0>>, <<-1, 0>>, <<0, 1>>, <<0, -1>>}} \cap Cells])

\* _compute_adjacency_list: the cell itself and its neighbours on the board
adjacency_list ==
    Grid([c \in Cells |->
        {<<c[1] + d[1], c[2] + d[2]>> :
            d \in {<<0, 0>>, <<1, 0>>, <<-1, 0>>, <<0, 1>>, <<0, -1>>}} \cap Cells])

\* a mutant of NeighborCount: every cell is taken to have all five neighbours
NeighborCountAll == Grid([c \in Cells |-> Cardinality({<<0, 0>>, <<1, 0>>, <<-1, 0>>, <<0, 1>>, <<0, -1>>})])

\* len(neighbors)
NeighborCount == Grid([c \in Cells |-> Cardinality(adjacency_list[c])])

\* transition_update
transition_update(old_belief) ==
    Grid([c \in Cells |->
        SumSeq([k \in 1..Len(CellSeq) |->
            IF old_belief[CellSeq[k]] > 0 /\ c \in adjacency_list[CellSeq[k]]
            THEN old_belief[CellSeq[k]] \div NeighborCount[CellSeq[k]]
            ELSE 0])])

GridTotal(matrix) == SumSeq([k \in 1..Len(CellSeq) |-> matrix[CellSeq[k]]])

\* predicted_belief * p_no_detect, cell by cell
Undetected(robot_pos, predicted_belief) ==
    Grid([c \in Cells |->
        (predicted_belief[c] * (ExpScale - DetectProb[manhattan_distance(c, robot_pos)]))
            \div ExpScale])

\* a mutant of Renormalized: without the fallback to the predicted grid
RenormalizedOrZero(predicted_belief, updated_belief, total) ==
    Grid([c \in Cells |-> IF total > 0 THEN (updated_belief[c] * Scale) \div total ELSE 0])

\* updated_belief / updated_belief.sum() if the sum is positive
Renormalized(predicted_belief, updated_belief, total) ==
    IF total > 0
    THEN Grid([c \in Cells |-> (updated_belief[c] * Scale) \div total])
    ELSE predicted_belief

Rescaled(predicted_belief, updated_belief) ==
    Renormalized(predicted_belief, updated_belief, GridTotal(updated_belief))

\* a mutant of observation_update: the grid is not cleared before the
\* detected cell is set
observation_update_not_cleared(robot_pos, predicted_belief, observed_location) ==
    IF observed_location # None
    THEN Grid([predicted_belief EXCEPT ![observed_location[1]] = Scale])
    ELSE Rescaled(predicted_belief, Undetected(robot_pos, predicted_belief))

\* observation_update
observation_update(robot_pos, predicted_belief, observed_location) ==
    IF observed_location # None
    THEN Grid([c \in Cells |-> IF c = observed_location[1] THEN Scale ELSE 0])
    ELSE Rescaled(predicted_belief, Undetected(robot_pos, predicted_belief))

\* one round of the loop of update_beliefs
UpdateBelief(b, robot_pos, id, position) ==
    IF id = SkippedId THEN b
    ELSE IF id \notin DOMAIN b.belief THEN Raised(b, "KeyError", "update_beliefs")
    ELSE [b EXCEPT !.belief = (id :> observation_update(robot_pos,
                                        transition_update(b.belief[id]), position)) @@ @]

RECURSIVE BeliefLoop(_, _, _, _)
BeliefLoop(b, robot_pos, visible, ids) ==
    IF ids = <<>> \/ b.err # NoErr THEN b
    ELSE BeliefLoop(UpdateBelief(b, robot_pos, Head(ids), visible[Head(ids)]),
                    robot_pos, visible, Tail(ids))

\* update_beliefs
update_beliefs(b, robot_pos, visible) ==
    BeliefLoop(b, robot_pos, visible, SortedIds(DOMAIN visible))

\* np.max(matrix)
GridMax(matrix) == CHOOSE m \in {matrix[c] : c \in Cells} : \A c \in Cells : matrix[c] <= m

\* tuple(index): the coordinates as a tuple.  The snapshot's positions are
\* lists, and in Python no tuple equals a list.
AsTuple(c) == <<c[1], c[2], "tuple">>

MaxCells(matrix, max_value) ==
    LET IsMax(c) == matrix[c] = max_value
    IN  SelectSeq(CellSeq, IsMax)

Tuples(cells) == List([k \in 1..Len(cells) |-> AsTuple(cells[k])])

\* get_probable_locations: the cells of the largest mass, in row-major order
get_probable_locations(matrix) == Tuples(MaxCells(matrix, GridMax(matrix)))

\* get_avg_probs: zip(*probs) stops at the shortest list
get_avg_probs(probs) ==
    IF probs = <<>> THEN <<>>
    ELSE LET shortest == CHOOSE n \in {Len(probs[j]) : j \in 1..Len(probs)} :
                            \A j \in 1..Len(probs) : n <= Len(probs[j])
         IN  List([i \in 1..shortest |->
                SumSeq([j \in 1..Len(probs) |-> probs[j][i]]) \div Len(probs)])

\* PartialObsGeneralizedProbabilisticBot.initialize_probabilities
PartialObs_initialize_probabilities(b) ==
    IF DOMAIN player_positions(b) = {} \/ animal_positions(b) = <<>> THEN b
    ELSE [b EXCEPT !.player_probabilities =
                        Grid([id \in DOMAIN player_positions(b) \ {SkippedId} |->
                                Uniform(Len(animal_positions(b)))]) @@ @,
                   !.idx2animal =
                        List([i \in 1..Len(animal_positions(b)) |-> animal_positions(b)[i][1]])
                            \o SubSeq(@, Len(animal_positions(b)) + 1, Len(@)),
                   !.initialized_probabilities = TRUE]

\* the first loop of update_probabilities2, one observed player
UpdateObserved(b, id, position) ==
    IF id \notin DOMAIN b.previous_player_positions
    THEN [b EXCEPT !.previous_player_positions = (id :> position) @@ @]
    ELSE IF HasNotMoved(b.previous_player_positions[id], position) THEN b
    ELSE IF id \notin DOMAIN b.player_probabilities
    THEN Raised(b, "KeyError", "update_probabilities2")
    ELSE Assign(b, id, position,
                infer_intention(animal_positions(b), position,
                                b.previous_player_positions[id],
                                b.player_probabilities[id]),
                "infer_intention")

\* probs: infer_intention for every probable cell
InferAll(b, id, possible_positions) ==
    List([k \in 1..Len(possible_positions) |->
            infer_intention(animal_positions(b), possible_positions[k],
                            b.previous_player_positions[id],
                            b.player_probabilities[id])])

\* the first call of infer_intention that raises, or 0
FirstFailure(inferred) ==
    LET Failed(k) == ~inferred[k].ok
        failed == SelectSeq([k \in 1..Len(inferred) |-> k], Failed)
    IN  IF failed = <<>> THEN 0 ELSE failed[1]

\* get_avg_probs(probs), or the exception that kept probs from being built
Averaged(inferred) ==
    IF FirstFailure(inferred) # 0 THEN inferred[FirstFailure(inferred)]
    ELSE Ok(get_avg_probs([k \in 1..Len(inferred) |-> inferred[k].v]))

UnobservedAt(b, id, choice, possible_positions) ==
    IF id \notin DOMAIN b.previous_player_positions
    THEN [b EXCEPT !.previous_player_positions = (id :> choice) @@ @]
    ELSE IF b.previous_player_positions[id] \in ToSet(possible_positions) THEN b
    ELSE IF id \notin DOMAIN b.player_probabilities
    THEN Raised(b, "KeyError", "update_probabilities2")
    ELSE Assign(b, id, choice, Averaged(InferAll(b, id, possible_positions)),
                "infer_intention")

\* the second loop of update_probabilities2, one unobserved player; choice
\* is the cell random.choice(possible_positions) gives if it is called
UpdateUnobserved(b, id, choice) ==
    UnobservedAt(b, id, choice, get_probable_locations(b.belief[id]))

RECURSIVE ObservedLoop(_, _, _)
ObservedLoop(b, visible, ids) ==
    IF ids = <<>> \/ b.err # NoErr THEN b
    ELSE ObservedLoop(UpdateObserved(b, Head(ids), visible[Head(ids)][1]), visible, Tail(ids))

RECURSIVE UnobservedLoop(_, _, _)
UnobservedLoop(b, choices, ids) ==
    IF ids = <<>> \/ b.err # NoErr THEN b
    ELSE UnobservedLoop(UpdateUnobserved(b, Head(ids), choices[Head(ids)]), choices, Tail(ids))

\* sum([avg_probs[i] for i in range(len(self.animal_positions))
\*      if self.idx2animal[i] == type])
TeamSum(b, avg_probs, type) ==
    LET Fails(i) == \/ i > Len(b.idx2animal)
                    \/ b.idx2animal[i] = type /\ i > Len(avg_probs)
        fails == SelectSeq([i \in 1..Len(animal_positions(b)) |-> i], Fails)
    IN  IF fails # <<>>
        THEN IF fails[1] > Len(b.idx2animal) THEN Raise("KeyError") ELSE Raise("IndexError")
        ELSE Ok(SumSeq([i \in 1..Len(animal_positions(b)) |->
                    IF b.idx2animal[i] = type THEN avg_probs[i] ELSE 0]))

\* the two assignments to team_goal, the first of which stays if the second raises
SetTeamGoal(b, stag, hare) ==
    IF ~stag.ok THEN Raised(b, stag.e, "update_probabilities2")
    ELSE IF ~hare.ok
    THEN Raised([b EXCEPT !.team_goal.stag = stag.v], hare.e, "update_probabilities2")
    ELSE [b EXCEPT !.team_goal = [stag |-> stag.v, hare |-> hare.v]]

TeamGoalFrom(b, avg_probs) ==
    SetTeamGoal(b, TeamSum(b, avg_probs, "stag"), TeamSum(b, avg_probs, "hare"))

\* list(d.values())
Values(d) ==
    LET ids == SortedIds(DOMAIN d) IN List([k \in 1..Len(ids) |-> d[ids[k]]])

\* the tail of update_probabilities2: the team goal
UpdateTeamGoal(b) == TeamGoalFrom(b, get_avg_probs(Values(b.player_probabilities)))

FinishUpdate(b) == IF b.err # NoErr THEN b ELSE UpdateTeamGoal(b)

\* obs_player and unobs_player, the ids only
ObservedIds(visible) ==
    LET IsObs(id) == visible[id] # None IN SelectSeq(SortedIds(DOMAIN visible), IsObs)

UnobservedIds(visible) ==
    LET IsUnobs(id) == visible[id] = None IN SelectSeq(SortedIds(DOMAIN visible), IsUnobs)

\* update_probabilities2
update_probabilities2(b, visible, choices) ==
    IF DOMAIN player_positions(b) = {} \/ animal_positions(b) = <<>> THEN b
    ELSE FinishUpdate(UnobservedLoop(ObservedLoop(b, visible, ObservedIds(visible)),
                                     choices, UnobservedIds(visible)))

\* max_prob == min_prob
Flat(probabilities) == MaxOf(probabilities) = MinOf(probabilities)

\* the players whose vector has a best entry
Peaked(b, ids) ==
    LET HasBest(id) == ~Flat(b.player_probabilities[id]) IN SelectSeq(ids, HasBest)

\* the exception the loop of decide_action raises first, if any
PartialObs_TargetError(b, ids) ==
    LET Empty(id) == b.player_probabilities[id] = <<>>
        Bad(id) == \/ Empty(id)
                   \/ /\ ~Flat(b.player_probabilities[id])
                      /\ BestIndex(b.player_probabilities[id]) > Len(animal_positions(b))
    IN  IF SelectSeq(ids, Bad) = <<>> THEN ""
        ELSE IF Empty(SelectSeq(ids, Bad)[1]) THEN "ValueError" ELSE "IndexError"

\* the team goal is for the stag, or the difference is marginal
ForStag(b) ==
    \/ b.team_goal.stag > b.team_goal.hare
    \/ Abs(b.team_goal.stag - b.team_goal.hare) < Scale \div 10

\* an index that is not None
SomeOf(r) == IF r.ok THEN Ok(Some(r.v)) ELSE r

\* a mutant of ChooseAmong: a target is chosen also when no vector is peaked
ChooseAmongWithoutWait(b, robot_pos, peaked) ==
    SomeOf(PickTarget(b, robot_pos, ForStag(b),
                      TargetsOfType(b, peaked, "stag"),
                      TargetsOfType(b, peaked, "hare")))

ChooseAmong(b, robot_pos, peaked) ==
    IF peaked = <<>> THEN Ok(None)
    ELSE SomeOf(PickTarget(b, robot_pos, ForStag(b),
                           TargetsOfType(b, peaked, "stag"),
                           TargetsOfType(b, peaked, "hare")))

\* PartialObsGeneralizedProbabilisticBot.decide_action: None, or the index
\* (from 1) of the animal to go for, or the exception
PartialObs_decide_action(b, robot_pos) ==
    IF PartialObs_TargetError(b, TargetIds(b)) # ""
    THEN Raise(PartialObs_TargetError(b, TargetIds(b)))
    ELSE ChooseAmong(b, robot_pos, Peaked(b, TargetIds(b)))

\* the lazy initialisations at the head of get_next_key
InitProbabilities(b) ==
    IF b.initialized_probabilities THEN b ELSE PartialObs_initialize_probabilities(b)

LazyInit(b) == InitProbabilities(IF b.initialized_belief THEN b ELSE init_belief_state(b))

\* self.iterations += 1 and get_observation returning visible, or raising
\* in manhattan_distance(robot_position, pos) when my_position gave None
Observed(b, visible) ==
    IF my_position(b) = None /\ DOMAIN player_positions(b) \ {SkippedId} # {}
    THEN Raised([b EXCEPT !.iterations = @ + 1], "TypeError", "get_observation")
    ELSE [b EXCEPT !.iterations = @ + 1, !.visible_players = visible]

Track(b, visible) ==
    IF b.err # NoErr THEN b ELSE update_beliefs(b, my_position(b), visible)

\* PartialObsGeneralizedProbabilisticBot.get_next_key after the warm-up,
\* first half: the lazy initialisations, the observation and update_beliefs
ObserveAndTrack(b, visible) == Track(Observed(LazyInit(b), visible), visible)

\* the end of PartialObsGeneralizedProbabilisticBot.get_next_key
PartialObs_MoveToTarget(b, best_target) ==
    IF ~best_target.ok THEN Escapes(Raised(b, best_target.e, "decide_action"))
    ELSE IF best_target.v = None THEN Returns(b, {"None"})
    ELSE Returns(b, move_towards(my_position(b), animal_positions(b)[best_target.v[1]][2]))

PartialObs_DecideAndMove(b) ==
    IF b.err # NoErr THEN Escapes(b)
    ELSE PartialObs_MoveToTarget(b, PartialObs_decide_action(b, my_position(b)))

\* second half: update_probabilities2, decide_action and the key; choices[id]
\* is what random.choice returns for the unobserved player id
InferAndDecide(b, visible, choices) ==
    PartialObs_DecideAndMove(
        IF b.err # NoErr THEN b ELSE update_probabilities2(b, visible, choices))

\* the first lines of PartialObsGeneralizedProbabilisticBot.get_next_key
WarmingUp(b) == b.iterations < WarmUp

\* PartialObsGeneralizedProbabilisticBot.get_next_key on the snapshot
\* b.state, when get_observation returns visible
PartialObs_get_next_key(b, visible, choices) ==
    IF WarmingUp(b)
    THEN Returns([b EXCEPT !.iterations = @ + 1], {"None"})
    ELSE InferAndDecide(ObserveAndTrack(b, visible), visible, choices)

\* ------------------------------------------------------- ProbabilisticBot
\* stag_position: the position of the last animal named stag, or None
StagPosition(items) ==
    LET IsStag(item) == item[1] = "stag"
    IN  IF SelectSeq(items, IsStag) = <<>> THEN None
        ELSE Some(SelectSeq(items, IsStag)[Len(SelectSeq(items, IsStag))][2])

\* hare_positions
HarePositions(items) ==
    LET IsHare(item) == item[1] = "hare" IN SelectSeq(items, IsHare)

\* the stag and the first two hares, the three targets of the update
ThreeTargets(items) ==
    << <<"stag", StagPosition(items)[1]>>, HarePositions(items)[1], HarePositions(items)[2] >>

\* ProbabilisticBot.initialize_probabilities
ProbabilisticBot_initialize_probabilities(b) ==
    IF DOMAIN player_positions(b) = {} THEN b
    ELSE [b EXCEPT !.player_probabilities =
                        Grid([id \in DOMAIN player_positions(b) \ {SkippedId} |->
                                <<Scale \div 3, Scale \div 3, Scale \div 3>>]) @@ @,
                   !.initialized_probabilities = TRUE]

\* the likelihoods, the three priors and their normalize
ProbabilisticBot_Posterior(prob, exponentials) ==
    LET lhood_denom == SumSeq(exponentials)
        lhood(i) == IF lhood_denom = 0 THEN Scale \div 3
                    ELSE (exponentials[i] * Scale) \div lhood_denom
    IN  ProbabilisticBot_normalize(List([i \in 1..3 |-> (prob[i] * lhood(i)) \div Scale]))

\* one round of the loop of ProbabilisticBot.update_probabilities
ProbabilisticBot_UpdatePlayer(b, id, targets) ==
    IF id = SkippedId THEN b
    ELSE IF id \notin DOMAIN b.previous_player_positions
    THEN [b EXCEPT !.previous_player_positions = (id :> player_positions(b)[id]) @@ @]
    ELSE IF HasNotMoved(b.previous_player_positions[id], player_positions(b)[id]) THEN b
    ELSE IF id \notin DOMAIN b.player_probabilities
    THEN Raised(b, "KeyError", "update_probabilities")
    ELSE Assign(b, id, player_positions(b)[id],
                ProbabilisticBot_Posterior(b.player_probabilities[id],
                    Exponentials(targets, player_positions(b)[id],
                                 b.previous_player_positions[id])),
                "update_probabilities")

RECURSIVE ProbabilisticBot_UpdateLoop(_, _, _)
ProbabilisticBot_UpdateLoop(b, ids, targets) ==
    IF ids = <<>> \/ b.err # NoErr THEN b
    ELSE ProbabilisticBot_UpdateLoop(ProbabilisticBot_UpdatePlayer(b, Head(ids), targets),
                                     Tail(ids), targets)

\* self.iterations += 1 at the end of update_probabilities
Counted(b) == IF b.err # NoErr THEN b ELSE [b EXCEPT !.iterations = @ + 1]

\* ProbabilisticBot.update_probabilities
ProbabilisticBot_update_probabilities(b) ==
    IF DOMAIN player_positions(b) = {} THEN b
    ELSE IF StagPosition(animal_positions(b)) = None
            \/ Len(HarePositions(animal_positions(b))) < 2 THEN b
    ELSE Counted(ProbabilisticBot_UpdateLoop(b, SortedIds(DOMAIN player_positions(b)),
                                             ThreeTargets(animal_positions(b))))

\* `if value > max_probability`: the running maximum and its target
Consider(acc, value, target) ==
    IF value > acc.max_probability
    THEN [max_probability |-> value, best_target |-> target]
    ELSE acc

RECURSIVE DecideLoop(_, _)
DecideLoop(acc, vectors) ==
    IF vectors = <<>> THEN acc.best_target
    ELSE DecideLoop(Consider(Consider(Consider(acc, Head(vectors)[1], "stag"),
                                      Head(vectors)[3], "hare_1"),
                             Head(vectors)[2], "hare_2"),
                    Tail(vectors))

\* ProbabilisticBot.decide_action
ProbabilisticBot_decide_action(b) ==
    DecideLoop([max_probability |-> 0, best_target |-> "None"],
               Values(b.player_probabilities))

\* ProbabilisticBot.move_towards
ProbabilisticBot_move_towards(current_position, target_position) ==
    IF target_position[1] > current_position[1] THEN "DOWN"
    ELSE IF target_position[1] < current_position[1] THEN "UP"
    ELSE IF target_position[2] > current_position[2] THEN "RIGHT"
    ELSE IF target_position[2] < current_position[2] THEN "LEFT"
    ELSE "SPACE"

\* target_position in ProbabilisticBot.get_next_key
TargetPosition(b, best_target) ==
    LET IsStag(item) == item[1] = "stag" IN
    IF best_target = "stag"
    THEN IF SelectSeq(animal_positions(b), IsStag) = <<>> THEN Ok(None)
         ELSE Ok(Some(SelectSeq(animal_positions(b), IsStag)[1][2]))
    ELSE IF best_target = "hare_1" THEN Ok(Some(animal_positions(b)[1][2]))
    ELSE IF best_target = "hare_2"
    THEN IF Len(animal_positions(b)) < 2 THEN Raise("IndexError")
         ELSE Ok(Some(animal_positions(b)[2][2]))
    ELSE Ok(None)

ProbabilisticBot_MoveToTarget(b, target_position) ==
    IF ~target_position.ok THEN Escapes(Raised(b, target_position.e, "get_next_key"))
    ELSE IF target_position.v = None THEN Returns(b, {"SPACE"})
    ELSE IF my_position(b) = None THEN Escapes(Raised(b, "TypeError", "move_towards"))
    ELSE Returns(b, {ProbabilisticBot_move_towards(my_position(b), target_position.v[1])})

ProbabilisticBot_DecideAndMove(b) ==
    IF b.err # NoErr THEN Escapes(b)
    ELSE ProbabilisticBot_MoveToTarget(b, TargetPosition(b, ProbabilisticBot_decide_action(b)))

ProbabilisticBot_Run(b) ==
    IF DOMAIN player_positions(b) # {} /\ animal_positions(b) # <<>>
    THEN ProbabilisticBot_DecideAndMove(ProbabilisticBot_update_probabilities(b))
    ELSE Returns(b, {"SPACE"})

\* ProbabilisticBot.get_next_key on the snapshot b.state
ProbabilisticBot_get_next_key(b) ==
    ProbabilisticBot_Run(
        IF b.initialized_probabilities THEN b ELSE ProbabilisticBot_initialize_probabilities(b))

\* ------------------------------------------ HighPerformanceBaseGridUniverseBot
\* the move that send_next_key's if/elif chain has for a key
MoveOf == ("UP" :> "up") @@ ("DOWN" :> "down") @@ ("LEFT" :> "left") @@ ("RIGHT" :> "right")

\* a mutant of send_next_key: a message is published for every key
send_next_key_always(participant_id, key) ==
    <<[type |-> "move", player_id |-> participant_id,
       move |-> IF key \in DOMAIN MoveOf THEN MoveOf[key] ELSE "up"]>>

\* send_next_key after get_next_key has returned key: the messages published
send_next_key(participant_id, key) ==
    IF key \in DOMAIN MoveOf
    THEN <<[type |-> "move", player_id |-> participant_id, move |-> MoveOf[key]]>>
    ELSE <<>>

\* ------------------------------------------------ specification: the bots
BotPolicies == {"ProbabilisticBot", "GeneralizedProbabilisticBot",
                "PartialObsGeneralizedProbabilisticBot"}

\* the ids a snapshot may hold, and the ids a bot may be given
PlayerIds == {1, 2, 3}
BotIds == {1, 2}

\* the animals a snapshot may list: any prefix of these
AllItems == << <<"stag", <<0, Cols - 1>> >>, <<"hare", <<Rows - 1, 0>> >>,
               <<"hare", <<Rows - 1, Cols - 1>> >> >>
\* or the stag together with a second stag
TwoStags == << AllItems[1], <<"stag", <<Rows - 1, 0>> >> >>
ItemLayouts == {SubSeq(AllItems, 1, k) : k \in 0..Len(AllItems)} \cup {TwoStags}

\* the walls a snapshot may hold: none, or one that no player or animal is on
WallLayouts == {{}, {<<Rows - 1, 1>>}}

\* where the bot stands, and where another player enters the board
BotCell == <<0, 0>>
EntryCell == <<0, 1>>

\* Between two ticks at most one thing changes on the board: a player other
\* than the bot takes one step, a player enters, the bot's own entry is
\* missing from the players, or the animal list gets longer or shorter by one.
Steps(c) == {n \in Cells : manhattan_distance(c, n) = 1}

Stepped(s, self_id) ==
    UNION {{[s EXCEPT !.players[id] = c] : c \in Steps(s.players[id]) \ s.walls} :
              id \in DOMAIN s.players \ {self_id}}

Left(s, self_id) ==
    IF self_id \notin DOMAIN s.players THEN {}
    ELSE {[s EXCEPT !.players = [id \in DOMAIN s.players \ {self_id} |-> s.players[id]]]}

Entered(s) ==
    {[s EXCEPT !.players = (id :> EntryCell) @@ @] : id \in PlayerIds \ DOMAIN s.players}

Relisted(s) ==
    {[s EXCEPT !.items = l] : l \in {i \in ItemLayouts : Abs(Len(i) - Len(s.items)) = 1}}

NextSnapshots(s, self_id) ==
    {s} \cup Stepped(s, self_id) \cup Entered(s) \cup Left(s, self_id) \cup Relisted(s)

BotsInit ==
    /\ IdleLife
    /\ IdleNorm
    /\ IdleDist
    /\ IdleCall
    /\ bot_policy \in BotPolicies
    /\ player_id \in BotIds
    /\ \E others \in {o \in SUBSET (PlayerIds \ {player_id}) : Cardinality(o) <= 1},
          l \in ItemLayouts, w \in WallLayouts :
          state = [players |-> (player_id :> BotCell) @@ [id \in others |-> EntryCell],
                   items |-> l, walls |-> w]
    /\ player_probabilities = <<>>
    /\ previous_player_positions = <<>>
    /\ initialized_probabilities = FALSE
    /\ iterations = 0
    /\ belief = <<>>
    /\ initialized_belief = FALSE
    /\ idx2animal = <<>>
    /\ team_goal = [stag |-> Scale \div 2, hare |-> Scale \div 2]
    /\ visible_players = <<>>
    /\ next_move = "None"
    /\ err = NoErr
    /\ rounds = 0
    /\ published = <<>>

\* the bot that get_next_key leaves behind, returning the key k, and what
\* send_next_key publishes for it; an exception leaves send_next_key too
Becomes(b, k) ==
    /\ state' = b.state
    /\ player_probabilities' = b.player_probabilities
    /\ previous_player_positions' = b.previous_player_positions
    /\ initialized_probabilities' = b.initialized_probabilities
    /\ iterations' = b.iterations
    /\ belief' = b.belief
    /\ initialized_belief' = b.initialized_belief
    /\ idx2animal' = b.idx2animal
    /\ team_goal' = b.team_goal
    /\ visible_players' = b.visible_players
    /\ next_move' = k
    /\ err' = b.err
    /\ rounds' = rounds + 1
    /\ published' = IF b.err # NoErr THEN <<>> ELSE send_next_key(player_id, k)
    /\ UNCHANGED <<bot_policy, player_id, norm_vars, dist_vars, call_vars, life_vars>>

\* one round of the loop of participate: the snapshot is read and
\* get_next_key is run on it
GeneralizedTick ==
    /\ bot_policy = "GeneralizedProbabilisticBot"
    /\ err = NoErr
    /\ rounds < MaxTicks
    /\ \E s \in NextSnapshots(state, player_id) :
          \E r \in {GeneralizedProbabilisticBot_get_next_key([Self EXCEPT !.state = s])} :
              \E k \in r.keys : Becomes(r.bot, k)

ProbabilisticTick ==
    /\ bot_policy = "ProbabilisticBot"
    /\ err = NoErr
    /\ rounds < MaxTicks
    /\ \E s \in NextSnapshots(state, player_id) :
          \E r \in {ProbabilisticBot_get_next_key([Self EXCEPT !.state = s])} :
              \E k \in r.keys : Becomes(r.bot, k)

\* the cells random.choice may give for the unobserved players: any of the
\* most probable cells of the belief that update_beliefs has left
Choices(b, visible) ==
    IF b.err # NoErr THEN {<<>>}
    ELSE {c \in [ToSet(UnobservedIds(visible)) -> {AsTuple(cell) : cell \in Cells}] :
            \A id \in DOMAIN c : c[id] \in ToSet(get_probable_locations(b.belief[id]))}

PartialObsWarmUp ==
    /\ bot_policy = "PartialObsGeneralizedProbabilisticBot"
    /\ err = NoErr
    /\ WarmingUp(Self)
    /\ \E s \in NextSnapshots(state, player_id) :
          \E r \in {PartialObs_get_next_key([Self EXCEPT !.state = s], <<>>, <<>>)} :
              \E k \in r.keys : Becomes(r.bot, k)

PartialObsTick ==
    /\ bot_policy = "PartialObsGeneralizedProbabilisticBot"
    /\ err = NoErr
    /\ ~WarmingUp(Self)
    /\ rounds < WarmUp + MaxObservations
    /\ \E s \in NextSnapshots(state, player_id) :
          \E visible \in Observations([Self EXCEPT !.state = s]) :
              \E b \in {ObserveAndTrack([Self EXCEPT !.state = s], visible)} :
                  \E choices \in Choices(b, visible) :
                      \E r \in {InferAndDecide(b, visible, choices)} :
                          \E k \in r.keys : Becomes(r.bot, k)

BotsNext == ProbabilisticTick \/ GeneralizedTick \/ PartialObsWarmUp \/ PartialObsTick

SpecBots == BotsInit /\ [][BotsNext]_vars

\* ------------------------------------- specification: the belief updates
\* transition_update and observation_update applied to one grid each: the
\* uniform grid, and every grid with mass on at most MaxSupport cells
MassLevels == {1, Scale \div 2, Scale}

GridOf(m) == Grid([c \in Cells |-> IF c \in DOMAIN m THEN m[c] ELSE 0])

InputGrids ==
    {UniformGrid} \cup
    {GridOf(m) : m \in UNION {[S -> MassLevels] :
                                S \in {T \in SUBSET Cells : Cardinality(T) <= MaxSupport}}}

BeliefInit ==
    /\ IdleLife
    /\ IdleNorm
    /\ IdleDist
    /\ IdleBot
    /\ state = [players |-> <<>>, items |-> <<>>, walls |-> {}]
    /\ call = "none"
    /\ call_args \in [grid : InputGrids, robot_pos : Cells,
                       observed_location : {None, Some(EntryCell)}]
    /\ call_result = NotRun

Called(method, result) ==
    /\ call = "none"
    /\ call' = method
    /\ call_result' = result
    /\ UNCHANGED <<call_args, norm_vars, state, dist_vars, bot_vars, life_vars>>

TransitionUpdate == Called("transition_update", transition_update(call_args.grid))

ObservationUpdate ==
    Called("observation_update",
           observation_update(call_args.robot_pos, call_args.grid,
                              call_args.observed_location))

BeliefNext == TransitionUpdate \/ ObservationUpdate

SpecBelief == BeliefInit /\ [][BeliefNext]_vars

\* ------------------------------------------ specification: move_towards
\* move_towards of the two stochastic classes applied to one pair of cells
StochasticBots == {"GeneralizedProbabilisticBot", "PartialObsGeneralizedProbabilisticBot"}

MoveInit ==
    /\ IdleLife
    /\ IdleNorm
    /\ IdleDist
    /\ IdleBot
    /\ state = [players |-> <<>>, items |-> <<>>, walls |-> {}]
    /\ call = "none"
    /\ call_args \in [class : StochasticBots, current_position : Cells,
                       target_position : Cells]
    /\ call_result = NotRun

\* one call; random.choice may give any of the options
MoveTowards ==
    \E key \in move_towards(call_args.current_position, call_args.target_position) :
        Called("move_towards", key)

MoveNext == MoveTowards

SpecMoves == MoveInit /\ [][MoveNext]_vars

\* --------------------------------------- specification: infer_intention
\* infer_intention applied along the walk of one agent: the agent starts in
\* the corner with a uniform vector, takes one step per update, and each
\* result is the prior of the next update.  The hypotheses are two or
\* three of HypothesisCells, in any order.
HypothesisCells == {<<0, 1>>, <<0, Near>>, <<Near, 0>>, <<0, Far + 1>>, <<Far, 0>>}

Placements ==
    {p \in UNION {[1..k -> HypothesisCells] : k \in 2..3} :
        \A i, j \in DOMAIN p : i # j => p[i] # p[j]}

\* animal_positions for a placement: a list of (item_id, position)
Hypotheses(p) == List([i \in DOMAIN p |-> <<"hare", p[i]>>])

WalkSteps(c) ==
    {n \in {<<c[1] + 1, c[2]>>, <<c[1] - 1, c[2]>>, <<c[1], c[2] + 1>>, <<c[1], c[2] - 1>>} :
        n[1] >= 0 /\ n[2] >= 0}

\* the hypotheses whose distance the step from c to n reduces
Approached(items, c, n) ==
    {i \in 1..Len(items) :
        manhattan_distance(n, items[i][2]) < manhattan_distance(c, items[i][2])}

InferenceInit ==
    /\ IdleLife
    /\ IdleNorm
    /\ IdleDist
    /\ IdleBot
    /\ state = [players |-> <<>>, items |-> <<>>, walls |-> {}]
    /\ call = "none"
    /\ \E p \in Placements :
          call_args = [items |-> Hypotheses(p), previous_position |-> <<0, 0>>,
                       current_position |-> <<0, 0>>, prob |-> Uniform(Len(p)),
                       updates |-> 0, toward |-> DOMAIN p]
    /\ call_result = NotRun

\* one update: the agent has stepped to n, and infer_intention is called
\* with the vector the last update left
InferIntention ==
    /\ call_args.updates < MaxUpdates
    /\ call = "none" \/ call_result.ok
    /\ \E n \in WalkSteps(call_args.current_position) :
          \E prior \in {IF call = "none" THEN call_args.prob ELSE call_result.v} :
              /\ call' = "infer_intention"
              /\ call_args' =
                    [items |-> call_args.items,
                     previous_position |-> call_args.current_position,
                     current_position |-> n, prob |-> prior,
                     updates |-> call_args.updates + 1,
                     toward |-> call_args.toward
                                  \cap Approached(call_args.items, call_args.current_position, n)]
              /\ call_result' =
                    infer_intention(call_args.items, n, call_args.current_position, prior)
    /\ UNCHANGED <<norm_vars, state, dist_vars, bot_vars, life_vars>>

InferenceNext == InferIntention

SpecInference == InferenceInit /\ [][InferenceNext]_vars

\* ---------------------------------------------------- AdvantageSeekingBot
\* distances(): for every player, the distance to every item, keyed by the
\* index of the item in the list (from 0); a record with is_none when there
\* is no route
distances ==
    Grid([id \in DOMAIN state.players |->
            Grid([j \in 0..(Len(state.items) - 1) |->
                    distance(state.players[id], state.items[j + 1][2])])])

\* best_choices as the first loops of get_logical_targets fill it: the keys
\* (player, food_id) of the reachable pairs, players in dict order
RECURSIVE ReachablePairs(_, _)
ReachablePairs(table, ids) ==
    IF ids = <<>> THEN <<>>
    ELSE LET Reachable(j) == ~table[Head(ids)][j].is_none
             food == SelectSeq([k \in 1..Cardinality(DOMAIN table[Head(ids)]) |-> k - 1],
                               Reachable)
         IN  [k \in 1..Len(food) |-> <<Head(ids), food[k]>>]
                 \o ReachablePairs(table, Tail(ids))

\* a mutant of SortedByDistance: the pairs stay in the order of the dict
Unsorted(table, pairs) == pairs

\* sorted(best_choices.items(), key=get_food_distance), keys only: a stable
\* sort, so pairs of equal distance stay in the order of the dict
RECURSIVE SortedByDistance(_, _)
SortedByDistance(table, pairs) ==
    IF pairs = <<>> THEN <<>>
    ELSE LET last == pairs[Len(pairs)]
             Of(pair) == table[pair[1]][pair[2]].distance
             NotAfter(pair) == Of(pair) <= Of(last)
             After(pair) == Of(pair) > Of(last)
             front == SortedByDistance(table, SubSeq(pairs, 1, Len(pairs) - 1))
         IN  SelectSeq(front, NotAfter) \o <<last>> \o SelectSeq(front, After)

\* the last loop of get_logical_targets: a pair is taken unless its player
\* or its food has been seen
RECURSIVE ChoicesLoop(_, _)
ChoicesLoop(best_choices, choices) ==
    IF best_choices = <<>> THEN choices
    ELSE LET player == Head(best_choices)[1]
             food_id == Head(best_choices)[2]
         IN  IF player \in DOMAIN choices \/ food_id \in {choices[p] : p \in DOMAIN choices}
             THEN ChoicesLoop(Tail(best_choices), choices)
             ELSE ChoicesLoop(Tail(best_choices), (player :> food_id) @@ choices)

\* AdvantageSeekingBot.get_logical_targets on a table of distances
get_logical_targets(table) ==
    ChoicesLoop(SortedByDistance(table, ReachablePairs(table, SortedIds(DOMAIN table))), <<>>)

\* ----------------------------------- specification: get_logical_targets
\* get_logical_targets of a bot that has not asked for a distance yet, on a
\* board without walls or with the corner (0, 0) walled off, with up to two
\* players and up to two items on free cells
CornerWalls == {{}, {<<0, 1>>, <<1, 0>>}}

TargetsInit ==
    /\ IdleLife
    /\ IdleNorm
    /\ IdleDist
    /\ IdleBot
    /\ IdleCall
    /\ \E w \in CornerWalls, S \in SUBSET BotIds, n \in 0..Cardinality(BotIds) :
          \E players \in [S -> Cells \ w], food \in [1..n -> Cells \ w] :
              state = [players |-> players,
                       items |-> [k \in 1..n |-> <<"food", food[k]>>],
                       walls |-> w]

\* one call of get_logical_targets: distances() caches the maze and the
\* graph if it asks for any distance
LogicalTargets ==
    /\ call = "none"
    /\ call' = "get_logical_targets"
    /\ call_result' = get_logical_targets(distances)
    /\ queries' = queries + 1
    /\ IF DOMAIN state.players # {} /\ state.items # <<>>
       THEN CachePair
       ELSE UNCHANGED <<_maze, _graph, builds>>
    /\ UNCHANGED <<call_args, norm_vars, state, last_query, last_result, bot_vars, life_vars>>

TargetsNext == LogicalTargets

SpecTargets == TargetsInit /\ [][TargetsNext]_vars

\* ------------------------------------------------------------- StalkerBot
\* StalkerBot.VALID_KEYS
StalkerKeys == {"UP", "DOWN", "RIGHT", "LEFT", "SPACE"}

\* the loop of get_furthest_player_position over the players in ids;
\* furthest_distance starts at -inf, held as -1 (no distance is negative)
RECURSIVE FurthestLoop(_, _, _, _)
FurthestLoop(b, ids, furthest_player, furthest_distance) ==
    IF ids = <<>> THEN Ok(furthest_player)
    ELSE IF Head(ids) = b.player_id
    THEN FurthestLoop(b, Tail(ids), furthest_player, furthest_distance)
    ELSE IF my_position(b) = None THEN Raise("TypeError")
    ELSE LET position == player_positions(b)[Head(ids)]
             to_player == Abs(my_position(b)[1] - position[1])
                            + Abs(my_position(b)[2] - position[2])
         IN  IF to_player > furthest_distance
             THEN FurthestLoop(b, Tail(ids), Some(position), to_player)
             ELSE FurthestLoop(b, Tail(ids), furthest_player, furthest_distance)

\* StalkerBot.get_furthest_player_position: Ok(None), Ok(Some(position)) or
\* the exception
get_furthest_player_position(b) ==
    FurthestLoop(b, SortedIds(DOMAIN player_positions(b)), None, -1)

\* the chain of comparisons that ends StalkerBot.get_next_key
StalkerKey(furthest_player, position) ==
    IF furthest_player[1] > position[1] THEN "DOWN"
    ELSE IF furthest_player[1] < position[1] THEN "UP"
    ELSE IF furthest_player[2] > position[2] THEN "RIGHT"
    ELSE IF furthest_player[2] < position[2] THEN "LEFT"
    ELSE "SPACE"

\* StalkerBot.get_next_key: the results it can give; random.choice gives
\* any of the valid keys
Stalker_get_next_key(b) ==
    LET furthest_player == get_furthest_player_position(b) IN
    IF ~furthest_player.ok THEN {furthest_player}
    ELSE IF furthest_player.v = None THEN {Ok(key) : key \in StalkerKeys}
    ELSE IF my_position(b) = None THEN {Raise("TypeError")}
    ELSE {Ok(StalkerKey(furthest_player.v[1], my_position(b)))}

\* ------------------------------------------ specification: StalkerBot
\* get_next_key of a StalkerBot on every snapshot with up to three players
\* anywhere on the board, the bot's own entry among them or not
StalkerInit ==
    /\ IdleLife
    /\ IdleNorm
    /\ IdleDist
    /\ IdleBot
    /\ state = [players |-> <<>>, items |-> <<>>, walls |-> {}]
    /\ call = "none"
    /\ \E id \in BotIds, S \in SUBSET PlayerIds :
          \E players \in [S -> Cells] :
              call_args = [state |-> [players |-> players, items |-> <<>>, walls |-> {}],
                           player_id |-> id]
    /\ call_result = NotRun

StalkerNextKey ==
    \E result \in Stalker_get_next_key(call_args) : Called("get_next_key", result)

StalkerNext == StalkerNextKey

SpecStalker == StalkerInit /\ [][StalkerNext]_vars

\* ------------------------------ specification: an agent lost from sight
\* update_beliefs for one agent that is detected at a cell and then missed
\* tick after tick, the bot being on any cell at each tick: call_args holds
\* the cell of the detection, the number of ticks since, and the grids that
\* transition_update gave at the last tick and at the tick before;
\* call_result is the belief
LostInit ==
    /\ IdleLife
    /\ IdleNorm
    /\ IdleDist
    /\ IdleBot
    /\ state = [players |-> <<>>, items |-> <<>>, walls |-> {}]
    /\ call = "update_beliefs"
    /\ \E detected \in Cells, robot_pos \in Cells :
          /\ call_args = [detected |-> detected, undetected |-> 0,
                          predicted |-> <<>>, predicted_before |-> <<>>]
          /\ call_result = observation_update(robot_pos, transition_update(UniformGrid),
                                              Some(detected))

\* one round of the loop of update_beliefs for an agent that is not detected
Undetect ==
    /\ call_args.undetected < MaxUndetected
    /\ \E robot_pos \in Cells :
          \E predicted \in {transition_update(call_result)} :
              /\ call_args' = [call_args EXCEPT !.undetected = @ + 1,
                                                !.predicted = predicted,
                                                !.predicted_before = call_args.predicted]
              /\ call_result' = observation_update(robot_pos, predicted, None)
    /\ UNCHANGED <<call, norm_vars, state, dist_vars, bot_vars, life_vars>>

LostNext == Undetect

SpecLost == LostInit /\ [][LostNext]_vars

\* ------------------------- participate of a high-performance bot, its handlers
\* times are in hundredths of a second; is_still_on_grid asks for more than
\* 0.25 s
Quarter == 25
Times == {0, Quarter, Quarter + 1}

\* self.grid: the attribute is unassigned, or <<dict>>, the dict held by the
\* keys the bot reads: remaining_time (None when the key is missing) and
\* grid ("none" when the key is missing, "empty" for {}, else "full")
EmptyDict == [remaining_time |-> None, grid |-> "none"]

\* the data of on_signup: data["quorum"]["n"], ["q"] and the status
SignupData ==
    [type : {"signup"}, n : 1..(Quorum + 1), q : {Quorum},
     status : {"working", "overrecruited"}]

\* the messages of the quorum channel, with or without the key q
QuorumMessages ==
    [type : {"quorum"}, has_q : {TRUE}, q : {Quorum}, n : 1..(Quorum + 1)]
        \cup {[type |-> "quorum", has_q |-> FALSE, q |-> 0, n |-> 0]}

\* the state messages: the remaining time, and the grid they carry, if any
StateMessages == [type : {"state"}, remaining_time : Times, grid : {"none", "empty", "full"}]

\* a mutant of QuorumFulfilled: any message naming q fulfils the quorum
QuorumNamed(data) == data.has_q

\* `"q" in data and data["q"] == data["n"]`
QuorumFulfilled(data) == data.has_q /\ data.q = data.n

\* the places where participate sleeps: gevent runs the handlers only there
Asleep == pc \in {"wait_for_quorum", "wait_for_grid", "wait_for_state", "sleep"}

\* is_still_on_grid: self.grid.get("remaining_time", 0) > 0.25
is_still_on_grid ==
    IF grid[1].remaining_time = None THEN FALSE ELSE grid[1].remaining_time[1] > Quarter

\* on_signup, after which participate is started
OnSignup ==
    /\ pc = "sign_up"
    /\ \E data \in SignupData :
          /\ handled' = data
          /\ _quorum_reached' = IF data.n = data.q THEN TRUE ELSE _quorum_reached
          /\ _skip_experiment' = IF data.status = "overrecruited" THEN TRUE
                                 ELSE _skip_experiment
    /\ pc' = "wait_for_quorum"
    /\ UNCHANGED <<grid, stopped, norm_vars, state, dist_vars, bot_vars, call_vars>>

\* handle_quorum, called while participate sleeps
HandleQuorum ==
    /\ Asleep
    /\ \E data \in QuorumMessages :
          /\ handled' = data
          /\ _quorum_reached' = IF QuorumFulfilled(data) THEN TRUE ELSE _quorum_reached
    /\ UNCHANGED <<pc, _skip_experiment, grid, stopped, norm_vars, state, dist_vars,
                   bot_vars, call_vars>>

\* self.grid["grid"].update(data["grid"]) as far as the bot reads it
Merged(old, new) ==
    IF new = "none" THEN old
    ELSE IF old = "full" \/ new = "full" THEN "full" ELSE "empty"

\* handle_state, called while participate sleeps, once the socket is made
HandleState ==
    /\ Asleep
    /\ grid # NoAttr
    /\ \E data \in StateMessages :
          /\ handled' = data
          /\ grid' = <<[remaining_time |-> Some(data.remaining_time),
                        grid |-> Merged(grid[1].grid, data.grid)]>>
          /\ stopped' = (stopped /\ data.remaining_time <= Quarter)
    /\ UNCHANGED <<pc, _quorum_reached, _skip_experiment, norm_vars, state, dist_vars,
                   bot_vars, call_vars>>

\* handle_stop, called while participate sleeps, once the socket is made
HandleStop ==
    /\ Asleep
    /\ grid # NoAttr
    /\ handled' = [type |-> "stop"]
    /\ grid' = <<[grid[1] EXCEPT !.remaining_time = Some(0)]>>
    /\ stopped' = TRUE
    /\ UNCHANGED <<pc, _quorum_reached, _skip_experiment, norm_vars, state, dist_vars,
                   bot_vars, call_vars>>

\* wait_for_quorum returns; an overrecruited bot returns from participate,
\* any other goes on to wait_for_grid, which assigns self.grid = {}
WaitForQuorum ==
    /\ pc = "wait_for_quorum"
    /\ _quorum_reached
    /\ IF _skip_experiment
       THEN pc' = "returned" /\ UNCHANGED grid
       ELSE pc' = "wait_for_grid" /\ grid' = <<EmptyDict>>
    /\ UNCHANGED <<_quorum_reached, _skip_experiment, handled, stopped, norm_vars, state,
                   dist_vars, bot_vars, call_vars>>

\* wait_for_grid returns: `if self.grid and self.grid["remaining_time"]`
WaitForGrid ==
    /\ pc = "wait_for_grid"
    /\ grid[1] # EmptyDict
    /\ grid[1].remaining_time \notin {None, Some(0)}
    /\ pc' = "wait_for_state"
    /\ UNCHANGED <<_quorum_reached, _skip_experiment, grid, handled, stopped, norm_vars,
                   state, dist_vars, bot_vars, call_vars>>

\* the loop that waits for the state: observe_state reads self.grid["grid"],
\* a KeyError when no state message has carried a grid
WaitForState ==
    /\ pc = "wait_for_state"
    /\ pc' = IF grid[1].grid = "none" THEN "raised" ELSE "loop"
    /\ UNCHANGED <<_quorum_reached, _skip_experiment, grid, handled, stopped, norm_vars,
                   state, dist_vars, bot_vars, call_vars>>

\* the head of the loop of participate: the test of is_still_on_grid, and
\* the test of the expected finish time, which can only fail once an earlier
\* round has proposed a finish time
LoopHead ==
    /\ pc = "loop"
    /\ \E overdue \in (IF rounds > 0 THEN BOOLEAN ELSE {FALSE}) :
          pc' = IF is_still_on_grid /\ ~overdue THEN "sleep" ELSE "returned"
    /\ UNCHANGED <<_quorum_reached, _skip_experiment, grid, handled, stopped, norm_vars,
                   state, dist_vars, bot_vars, call_vars>>

\* the rest of a round, after the sleep: observe_state, and send_next_key
\* with the key a RandomBot chooses (its VALID_KEYS are those of StalkerBot),
\* or `return False`
Round ==
    /\ pc = "sleep"
    /\ rounds < MaxTicks
    /\ IF grid[1].grid = "full"
       THEN \E key \in StalkerKeys :
               /\ next_move' = key
               /\ published' = send_next_key(player_id, key)
               /\ rounds' = rounds + 1
               /\ pc' = "loop"
       ELSE /\ pc' = "returned"
            /\ UNCHANGED <<next_move, published, rounds>>
    /\ UNCHANGED <<_quorum_reached, _skip_experiment, grid, handled, stopped, norm_vars,
                   state, dist_vars, call_vars, bot_policy, player_id,
                   player_probabilities, previous_player_positions,
                   initialized_probabilities, iterations, belief, initialized_belief,
                   idx2animal, team_goal, visible_players, err>>

\* ---------------------------------------- specification: participate
LifeInit ==
    /\ IdleNorm
    /\ IdleDist
    /\ IdleBot
    /\ IdleCall
    /\ state = [players |-> <<>>, items |-> <<>>, walls |-> {}]
    /\ pc = "sign_up"
    /\ _quorum_reached = FALSE
    /\ _skip_experiment = FALSE
    /\ grid = NoAttr
    /\ handled = <<>>
    /\ stopped = FALSE

LifeNext ==
    \/ OnSignup
    \/ HandleQuorum
    \/ HandleState
    \/ HandleStop
    \/ WaitForQuorum
    \/ WaitForGrid
    \/ WaitForState
    \/ LoopHead
    \/ Round

SpecLife == LifeInit /\ [][LifeNext]_vars

\* participate runs in a greenlet of its own, which gevent resumes after
\* each sleep: a step of participate that stays possible is taken
LifeFairness ==
    /\ WF_vars(WaitForQuorum)
    /\ WF_vars(WaitForGrid)
    /\ WF_vars(WaitForState)
    /\ WF_vars(LoopHead)
    /\ WF_vars(Round)

SpecLifeFair == SpecLife /\ LifeFairness

\* ------------------------------------------------------------------ claims
\* what one rounding per entry can add up to
SumTol(v) == Len(v) + 1

NormApplied == norm_out # NotRun
HasPositive(s) == \E i \in 1..Len(s) : s[i] > 0

\* C1: for every input list of non-negative numbers with at least one
\* positive entry, normalize returns a list that sums to 1 (up to rounding)
\* and in which every entry lies in [epsilon, 1 - epsilon] (up to one unit
\* of rounding), for every length K >= 1 and in every variant.
C1_NormalizeInRange ==
    (NormApplied /\ HasPositive(norm_in)) =>
        /\ norm_out.ok
        /\ Len(norm_out.v) = Len(norm_in)
        /\ Abs(SumSeq(norm_out.v) - Scale) <= SumTol(norm_in)
        /\ \A i \in 1..Len(norm_out.v) :
              /\ norm_out.v[i] >= Epsilon - 1
              /\ norm_out.v[i] <= Scale - Epsilon + 1

\* --------------------------------------------------------------- distance
Queried == last_query # <<>>
QOrigin == last_query[1]
QGoal == last_query[2]

\* the free cells that can be reached from the cells of S by cardinal steps
RECURSIVE Closure(_, _)
Closure(free, S) ==
    LET next == S \cup {n \in free : \E c \in S : manhattan_distance(c, n) = 1}
    IN  IF next = S THEN S ELSE Closure(free, next)

Reachable(origin, goal) ==
    /\ origin \in Cells \ wall_positions
    /\ goal \in Closure(Cells \ wall_positions, {origin})

\* the cells visited when the keys are pressed one by one from pos
RECURSIVE Walk(_, _)
Walk(pos, keys) ==
    IF keys = <<>> THEN <<pos>>
    ELSE <<pos>> \o Walk(KeyStep(pos, Head(keys)), Tail(keys))

\* C7: across any sequence of distance() and distances() calls the maze and
\* the graph are built at most once, and a call that finds the cached pair
\* leaves it as it is and builds nothing.
C7_BuiltAtMostOnce ==
    [][/\ builds' <= 1
       /\ _maze # NoAttr =>
            (_maze' = _maze /\ _graph' = _graph /\ builds' = builds)]_vars

C7_Witness == builds = 1 /\ queries >= 2 /\ Queried

Inferring == bot_policy \in {"GeneralizedProbabilisticBot",
                             "PartialObsGeneralizedProbabilisticBot"}
PartialObs == bot_policy = "PartialObsGeneralizedProbabilisticBot"

\* the methods that update the probability vectors
UpdateMethods == {"update_probabilities", "update_probabilities2", "infer_intention"}

\* K: the targets of the snapshot, or the three fixed targets of ProbabilisticBot
HypothesisCount == IF bot_policy = "ProbabilisticBot" THEN 3 ELSE Len(state.items)

\* the snapshot lists the targets the policy needs for an update
Updatable ==
    IF bot_policy = "ProbabilisticBot"
    THEN StagPosition(state.items) # None /\ Len(HarePositions(state.items)) >= 2
    ELSE state.items # <<>>

IsUniform(v, k) == k > 0 /\ v = Uniform(k)

\* C2: after every tick every tracked agent's probability vector has
\* exactly K entries, K the number of targets in the current snapshot, also
\* when the target list has grown or shrunk, and no update raises an error.
C2_VectorLengthIsK ==
    Inferring =>
        /\ \A id \in DOMAIN player_probabilities :
              Len(player_probabilities[id]) = Len(state.items)
        /\ err # NoErr => err[2] \notin UpdateMethods

\* the agents that enter the snapshot at this tick
Entering == DOMAIN state'.players \ (DOMAIN state.players \cup {player_id})

\* C3: an agent that first appears in a snapshot after the probabilities
\* (and beliefs) were initialised gets, at that tick, a uniform 1/K vector
\* (and a belief grid), and the tick completes without error.
C3_LateAgentIsTracked ==
    [][(Inferring /\ initialized_probabilities) =>
          \A id \in Entering :
              /\ err' = NoErr
              /\ id \in DOMAIN player_probabilities'
              /\ IsUniform(player_probabilities'[id], Len(state'.items))
              /\ PartialObs => id \in DOMAIN belief']_vars

\* the bot has refreshed its inference state and is running
Refreshed ==
    initialized_probabilities /\ err = NoErr /\ previous_player_positions # <<>>

\* C4: whatever id the bot has in the snapshot, player_probabilities and
\* previous_player_positions never hold the bot's own id, and once the
\* inference state is refreshed they hold every other agent of the snapshot.
C4_TracksOthersOnly ==
    /\ player_id \notin DOMAIN player_probabilities
    /\ player_id \notin DOMAIN previous_player_positions
    /\ Refreshed =>
          \A id \in DOMAIN state.players \ {player_id} :
              /\ id \in DOMAIN player_probabilities
              /\ id \in DOMAIN previous_player_positions

\* the bot reads its first snapshot at this tick
FirstTick ==
    IF PartialObs THEN iterations = WarmUp
    ELSE IF bot_policy = "ProbabilisticBot" THEN ~initialized_probabilities
    ELSE iterations = 0

\* the agent is seen at this tick: it is in the snapshot, and the partially
\* observing bot detects it
SeenNow(id) ==
    /\ id \in DOMAIN state'.players
    /\ id # player_id
    /\ PartialObs => /\ iterations' > WarmUp
                     /\ id \in DOMAIN visible_players'
                     /\ visible_players'[id] # None

\* C5: at the first tick in which an agent is seen (the bot's first tick,
\* or the tick at which the agent enters the snapshot) the bot records the
\* agent's position as its previous position and the agent's vector stays
\* the uniform 1/K vector.
C5_FirstSightingRecordsOnly ==
    [][Updatable' =>
          \A id \in (IF FirstTick THEN DOMAIN state'.players ELSE Entering) :
              SeenNow(id) =>
                  /\ id \in DOMAIN previous_player_positions'
                  /\ previous_player_positions'[id] = state'.players[id]
                  /\ id \in DOMAIN player_probabilities'
                  /\ IsUniform(player_probabilities'[id], HypothesisCount')]_vars

\* the agent is seen at this tick where its previous position was recorded
SeenUnmoved(id) ==
    /\ SeenNow(id)
    /\ id \in DOMAIN previous_player_positions
    /\ previous_player_positions[id] = state'.players[id]

OneHot(cell) == [c \in Cells |-> IF c = cell THEN Scale ELSE 0]

\* update_beliefs has run to its end at the last observing tick
BeliefsUpdated ==
    PartialObs /\ iterations > WarmUp /\ (err = NoErr \/ err[2] # "update_beliefs")

\* C10: whenever the observation reports a detected cell for a tracked
\* agent, after update_beliefs that agent's belief grid is exactly one-hot:
\* 1 at the detected cell and 0 at every other cell.
C10_DetectedIsOneHot ==
    BeliefsUpdated =>
        \A id \in DOMAIN visible_players \cap DOMAIN belief :
            visible_players[id] # None =>
                \A c \in Cells :
                    belief[id][c] = (IF c = visible_players[id][1] THEN Scale ELSE 0)

\* a detection at the first observing tick, where the prior grid was uniform
C10_Witness ==
    /\ BeliefsUpdated
    /\ iterations = WarmUp + 1
    /\ \E id \in DOMAIN visible_players \cap DOMAIN belief :
          /\ visible_players[id] # None
          /\ belief[id] = OneHot(visible_players[id][1])

\* what the roundings of one grid can add up to: one unit per cell in a
\* division of the whole grid, and less than len(neighbors) units per cell
\* in transition_update
GridTol == n_row * n_col
TransitionTol == SumSeq([k \in 1..Len(CellSeq) |-> NeighborCount[CellSeq[k]] - 1])

\* C11: after initialisation and after every update_beliefs, whatever was
\* detected, each tracked agent's belief grid has only non-negative entries
\* and sums to 1 (up to GridTol units of 1/Scale), and transition_update
\* conserves the total mass of that grid (up to TransitionTol units).
C11_BeliefIsDistribution ==
    \A id \in DOMAIN belief :
        /\ \A c \in Cells : belief[id][c] >= 0
        /\ Scale - GridTotal(belief[id]) \in 0..GridTol
        /\ \A c \in Cells : transition_update(belief[id])[c] >= 0
        /\ GridTotal(belief[id]) - GridTotal(transition_update(belief[id])) \in 0..TransitionTol

\* an agent missed after it had been detected: its grid is neither the
\* uniform one nor one-hot
C11_Witness ==
    /\ BeliefsUpdated
    /\ err = NoErr
    /\ \E id \in DOMAIN visible_players \cap DOMAIN belief :
          /\ visible_players[id] = None
          /\ \E c \in Cells : belief[id][c] = 0
          /\ \E c, d \in Cells : c # d /\ belief[id][c] > 0 /\ belief[id][d] > 0

\* C12: a belief grid is initialised uniform over the free (non-wall) cells
\* only and diffusion spreads mass only to free cells, so that in every
\* reachable state a wall cell carries belief mass 0 unless the agent was
\* detected there.
C12_WallsCarryNoMass ==
    \A id \in DOMAIN belief :
        \A c \in wall_positions :
            belief[id][c] > 0 =>
                id \in DOMAIN visible_players /\ visible_players[id] = Some(c)

\* the grid of an undetected observation update after every cell has been
\* multiplied by (1 - p_detect), and its total
Multiplied(robot_pos, predicted) ==
    [c \in Cells |->
        (predicted[c] * (ExpScale - get_gaussian_detect_prob(
                            manhattan_distance(c, robot_pos), visibility))) \div ExpScale]

MultipliedTotal(robot_pos, predicted) ==
    SumSeq([k \in 1..Len(CellSeq) |-> Multiplied(robot_pos, predicted)[CellSeq[k]]])

UndetectedCall == call = "observation_update" /\ call_args.observed_location = None

\* C13: in an undetected observation update, if the total mass after
\* multiplying every cell by (1 - p_detect) is not above the epsilon, the
\* result is exactly the predicted grid; otherwise the result is the
\* multiplied grid divided by its total.
C13_FallbackIsPredicted ==
    UndetectedCall =>
        \A c \in Cells :
            call_result[c] =
                IF MultipliedTotal(call_args.robot_pos, call_args.grid) > 0
                THEN (Multiplied(call_args.robot_pos, call_args.grid)[c] * Scale)
                        \div MultipliedTotal(call_args.robot_pos, call_args.grid)
                ELSE call_args.grid[c]

\* all the predicted mass is on the robot's own cell, where p_detect is 1
C13_Witness ==
    /\ UndetectedCall
    /\ MultipliedTotal(call_args.robot_pos, call_args.grid) = 0
    /\ call_args.grid[call_args.robot_pos] = Scale
    /\ call_result = call_args.grid

\* the keys of the four moves, and the keys that mean WAIT
MoveKeys == {"UP", "DOWN", "LEFT", "RIGHT"}
WaitKeys == {"SPACE", "None"}

\* the move a key stands for
Lowered(key) ==
    CASE key = "UP" -> "up" [] key = "DOWN" -> "down"
      [] key = "LEFT" -> "left" [] key = "RIGHT" -> "right"

\* C14: each tick produces exactly one action of UP, DOWN, LEFT, RIGHT and
\* WAIT: send_next_key publishes at most one message per tick; a published
\* message is a move of this bot whose move is the one of the key that
\* get_next_key returned; a move key is published; and a WAIT decision
\* (SPACE or no key) publishes nothing.
C14_OneActionPerTick ==
    /\ Len(published) <= 1
    /\ next_move \in MoveKeys \cup WaitKeys
    /\ published # <<>> =>
          /\ err = NoErr
          /\ next_move \in MoveKeys
          /\ published[1] = [type |-> "move", player_id |-> player_id,
                             move |-> Lowered(next_move)]
    /\ (err = NoErr /\ rounds > 0 /\ next_move \in MoveKeys) => published # <<>>
    /\ next_move \in WaitKeys => published = <<>>

\* a tick that published a move of the bot
C14_Witness ==
    /\ rounds > 0
    /\ err = NoErr
    /\ next_move = "RIGHT"
    /\ published = <<[type |-> "move", player_id |-> player_id, move |-> "right"]>>

\* the snapshot read at this tick lacks the bot's own position, or lists no
\* target
LacksPosition ==
    /\ rounds' = rounds + 1
    /\ \/ player_id \notin DOMAIN state'.players
       \/ state'.items = <<>>

\* C15: when the snapshot lacks the bot's own position (its id is not among
\* the players) or a required target position, get_next_key of the
\* inference bots skips the tick: it yields WAIT without raising and leaves
\* the inference state as it was.
C15_MissingPositionSkipsTick ==
    [][(Inferring /\ LacksPosition) =>
          /\ err' = NoErr
          /\ next_move' \in WaitKeys
          /\ published' = <<>>
          /\ UNCHANGED <<player_probabilities, previous_player_positions, belief,
                         team_goal>>]_vars

\* what decide_action returns on the snapshot and the inference state of
\* the last tick: Ok(None), Ok(Some(index)), or the exception
Decision ==
    IF PartialObs THEN PartialObs_decide_action(Self, my_position(Self))
    ELSE SomeOf(decide_action(Self))

\* the last tick read a snapshot with the bot in it and at least one target
OnBoardWithTargets ==
    Inferring /\ rounds > 0 /\ state.items # <<>> /\ player_id \in DOMAIN state.players

\* C16: for every snapshot with at least one target and any reachable
\* inference state (no tracked agents, only stags, only hares included),
\* decide_action returns None or the index of a target of the snapshot,
\* and never raises.
C16_DecisionNeverRaises ==
    OnBoardWithTargets =>
        /\ err # NoErr => err[2] # "decide_action"
        /\ err = NoErr =>
              /\ Decision.ok
              /\ Decision.v = None \/ Decision.v[1] \in 1..Len(state.items)

\* the agents the bot tracks, and an agent's top hypothesis: the first
\* target of the largest probability.  For the partially observing bot an
\* agent whose entries are all equal has no top hypothesis.
TrackedAgents == DOMAIN player_probabilities \ {SkippedId}

AllEqual(v) == \A i, j \in 1..Len(v) : v[i] = v[j]

Top(id) ==
    CHOOSE i \in 1..Len(player_probabilities[id]) :
        /\ \A j \in 1..Len(player_probabilities[id]) :
              player_probabilities[id][j] <= player_probabilities[id][i]
        /\ \A j \in 1..(i - 1) : player_probabilities[id][j] < player_probabilities[id][i]

HasTop(id) ==
    /\ player_probabilities[id] # <<>>
    /\ PartialObs => ~AllEqual(player_probabilities[id])

\* every top hypothesis is a target of the snapshot
TopsAreTargets == \A id \in TrackedAgents : HasTop(id) => Top(id) <= Len(state.items)

\* the targets of a type that are some tracked agent's top hypothesis, and
\* all the targets of a type
TopsOfType(type) ==
    {Top(id) : id \in {a \in TrackedAgents :
                        HasTop(a) /\ Top(a) <= Len(state.items) /\ state.items[Top(a)][1] = type}}

OnBoard(type) == {i \in 1..Len(state.items) : state.items[i][1] = type}

\* the targets of a set that are nearest to the bot
NearestOf(S) ==
    {i \in S : \A j \in S :
        manhattan_distance(state.players[player_id], state.items[i][2])
            <= manhattan_distance(state.players[player_id], state.items[j][2])}

TeamForStag ==
    \/ team_goal.stag > team_goal.hare
    \/ Abs(team_goal.stag - team_goal.hare) < Scale \div 10

\* the stag rule applies to the snapshot and the inference state
StagRule ==
    /\ OnBoardWithTargets
    /\ TopsAreTargets
    /\ TopsOfType("stag") # {}
    /\ TeamForStag

\* C17 as stated: when some tracked agent's top hypothesis is a stag and the
\* team preference for stag is greater than, or within 0.10 of, the one for
\* hare, decide_action commits to the stag nearest to the bot among all the
\* stags on the board.
C17_NearestOfAllStags ==
    StagRule =>
        /\ Decision.ok
        /\ Decision.v # None
        /\ Decision.v[1] \in NearestOf(OnBoard("stag"))

\* C17, amended: under the same condition decide_action commits to the
\* stag nearest to the bot among the stags that are some tracked agent's
\* top hypothesis.
C17_NearestTargetedStag ==
    StagRule =>
        /\ Decision.ok
        /\ Decision.v # None
        /\ Decision.v[1] \in NearestOf(TopsOfType("stag"))

\* two stags on the board, the bot goes for the one an agent has moved
\* towards although the other stag is nearer
C17_Witness ==
    /\ StagRule
    /\ Cardinality(OnBoard("stag")) = 2
    /\ Decision.v # None
    /\ Decision.v[1] \notin NearestOf(OnBoard("stag"))
    /\ \E id \in TrackedAgents :
          ~AllEqual(player_probabilities[id]) /\ Top(id) = Decision.v[1]

\* the hares that are no tracked agent's top hypothesis
Unclaimed == OnBoard("hare") \ TopsOfType("hare")

\* the stag rule does not apply, some agent has a top hypothesis where the
\* bot asks for one, and there is a hare to go for
HareRule ==
    /\ OnBoardWithTargets
    /\ TopsAreTargets
    /\ ~(TopsOfType("stag") # {} /\ TeamForStag)
    /\ PartialObs => \E id \in TrackedAgents : HasTop(id)
    /\ OnBoard("hare") # {}

NoInformation == \A id \in TrackedAgents : AllEqual(player_probabilities[id])

\* the last tick of the partially observing bot ran past the warm-up and
\* get_next_key returned
Decided == PartialObs /\ rounds > 0 /\ iterations > WarmUp /\ err = NoErr

\* C19: if every tracked agent's vector has all entries equal, the
\* partially observing bot emits WAIT for that tick (decide_action returns
\* None, get_next_key returns no key, nothing is published); and
\* decide_action returns None, and get_next_key no key after the warm-up,
\* only in that case.
C19_WaitIffNoInformation ==
    /\ (PartialObs /\ rounds > 0 /\ NoInformation) => published = <<>>
    /\ (Decided /\ NoInformation) => Decision = Ok(None) /\ next_move = "None"
    /\ (Decided /\ next_move = "None") => NoInformation
    /\ (PartialObs /\ Decision = Ok(None)) => NoInformation

\* an agent is tracked, targets are listed, nothing has been learnt yet,
\* and the bot waits
C19_Witness ==
    /\ Decided
    /\ TrackedAgents # {}
    /\ Len(state.items) >= 2
    /\ player_id \in DOMAIN state.players
    /\ NoInformation
    /\ next_move = "None"
    /\ published = <<>>

\* the directions whose single step strictly reduces the Manhattan distance
\* from current to target
Reducing(current, target) ==
    {key \in MoveKeys :
        manhattan_distance(KeyStep(current, key), target)
            < manhattan_distance(current, target)}

MoveCalled == call = "move_towards"

\* C20: in the stochastic variants move_towards(current, target) returns
\* only a direction whose single step strictly reduces the Manhattan
\* distance from current to target, every such direction is a possible
\* result, and it returns WAIT (SPACE) exactly when current equals target.
C20_MoveReducesDistance ==
    MoveCalled =>
        /\ call_result = "SPACE" <=> call_args.current_position = call_args.target_position
        /\ call_result # "SPACE" =>
              call_result \in Reducing(call_args.current_position, call_args.target_position)
        /\ \A key \in Reducing(call_args.current_position, call_args.target_position) :
              key \in move_towards(call_args.current_position, call_args.target_position)

\* the target lies up and to the right: of the two reducing directions
\* this call returned UP
C20_Witness ==
    /\ MoveCalled
    /\ Reducing(call_args.current_position, call_args.target_position) = {"UP", "RIGHT"}
    /\ call_result = "UP"

\* ---- infer_intention along a walk (SpecInference)
\* infer_intention has just returned the vector of an update
Updated == call = "infer_intention" /\ call_result.ok

\* the hypotheses the last step moved towards, and those it moved away from
Closer == Approached(call_args.items, call_args.previous_position, call_args.current_position)
Further == (1..Len(call_args.items)) \ Closer

\* the vector of the last update as normalize divides it, before its clamp
Unclamped ==
    LET raw == new_probabilities(call_args.items, call_args.prob,
                   Exponentials(call_args.items, call_args.current_position,
                                call_args.previous_position))
    IN  DivideAll(raw, SumSeq(raw))

\* normalize clamps entry i of the last update
ClampedLow(i) == Unclamped[i] < Epsilon
ClampedEntry(i) == Unclamped[i] < Epsilon \/ Unclamped[i] > Scale - Epsilon

FirstUpdate == Updated /\ call_args.updates = 1

\* the step from (0,0) to (0,1) with the hypotheses at (0,Near) and (Near,0)
Scenario ==
    /\ FirstUpdate
    /\ call_args.items = Hypotheses(<< <<0, Near>>, <<Near, 0>> >>)
    /\ call_args.current_position = <<0, 1>>

\* C21 as stated: after the first update from a uniform vector, every
\* hypothesis the agent moved closer to has a strictly higher probability
\* than every hypothesis it moved away from.
C21_CloserIsStrictlyHigher ==
    FirstUpdate =>
        \A i \in Closer : \A j \in Further : call_result.v[i] > call_result.v[j]

\* C21, amended: after the first update from a uniform vector, a hypothesis
\* the agent moved closer to has at least the probability of one it moved
\* away from, and strictly more unless normalize clamps both to epsilon; in
\* the scenario of the step (0,0) to (0,1) the hypothesis at (0,Near) is
\* strictly more probable than the one at (Near,0).
C21_CloserIsHigherUnlessClamped ==
    /\ FirstUpdate =>
          \A i \in Closer : \A j \in Further :
              /\ call_result.v[i] >= call_result.v[j]
              /\ call_result.v[i] > call_result.v[j] \/ (ClampedLow(i) /\ ClampedLow(j))
    /\ Scenario => call_result.v[1] > call_result.v[2]

\* the scenario has been updated, and normalize clamped neither entry
C21_Witness ==
    /\ Scenario
    /\ Closer = {1} /\ Further = {2}
    /\ ~ClampedEntry(1) /\ ~ClampedEntry(2)

\* the vector the agent had before the last update: the one the last update
\* left, handed to infer_intention as prob
Before == call_args.prob
NoClamp == \A i \in 1..Len(call_args.items) : ~ClampedEntry(i)

\* C22 as stated: while every step of the agent has reduced its distance to
\* hypothesis i, an update that clamps no entry does not lower P(i),
\* wherever the other hypotheses are.
C22_ApproachedNeverDrops ==
    (Updated /\ NoClamp) =>
        \A i \in call_args.toward : call_result.v[i] >= Before[i]

\* C22, amended: while every step of the agent has reduced its distance to
\* hypothesis i, an update that clamps no entry does not lower P(i),
\* provided the step reduces the distance to no other hypothesis.
C22_SoleApproachedNeverDrops ==
    (Updated /\ NoClamp) =>
        \A i \in call_args.toward : Closer = {i} => call_result.v[i] >= Before[i]

\* two updates in a row for steps that approached one hypothesis only, none
\* of them clamped, the second raising its probability
C22_Witness ==
    /\ Updated /\ NoClamp
    /\ call_args.updates = 2
    /\ \E i \in call_args.toward : Closer = {i} /\ call_result.v[i] > Before[i]

\* ---- the unobserved update of update_probabilities2 (SpecBots)
\* the cells of a grid that attain its maximum, in row-major order
ArgMax(matrix) ==
    LET Attains(c) == \A d \in Cells : matrix[d] <= matrix[c]
    IN  SelectSeq(CellSeq, Attains)

\* the element-wise mean over the candidate cells of the vectors that
\* infer_intention gives for a move from previous_position to the candidate
MeanOfUpdates(items, candidates, previous_position, prior) ==
    LET updates == List([k \in 1..Len(candidates) |->
                        infer_intention(items, candidates[k], previous_position, prior)])
    IN  IF \E k \in 1..Len(candidates) : ~updates[k].ok THEN <<>>
        ELSE List([i \in 1..Len(items) |->
                SumSeq([k \in 1..Len(candidates) |-> updates[k].v[i]]) \div Len(candidates)])

\* the tick lists targets and leaves player id unobserved, with a recorded
\* previous position that is none of the candidate cells: the second loop
\* of update_probabilities2 updates its vector
UnobservedUpdate(id) ==
    /\ PartialObs
    /\ rounds' = rounds + 1
    /\ state'.items # <<>>
    /\ id \in DOMAIN visible_players' /\ visible_players'[id] = None
    /\ id \in DOMAIN belief'
    /\ id \in DOMAIN previous_player_positions
    /\ previous_player_positions[id] \notin ToSet(get_probable_locations(belief'[id]))

\* rounding: each of the K entries of a normalised vector is rounded down
VectorTol(K) == K + 1

\* C23: get_probable_locations returns exactly the non-empty set of the
\* cells attaining the maximum of the grid, and the vector of an unobserved
\* agent after its update is the element-wise mean, over those cells, of
\* infer_intention from the recorded previous position to the cell (no
\* vector when infer_intention raises); it has length K and sums to 1 (up
\* to rounding).
C23_UnobservedIsMeanOverCandidates ==
    [][\A id \in PlayerIds :
          /\ (PartialObs /\ id \in DOMAIN belief') =>
                /\ get_probable_locations(belief'[id]) = Tuples(ArgMax(belief'[id]))
                /\ get_probable_locations(belief'[id]) # <<>>
          /\ UnobservedUpdate(id) =>
                /\ id \in DOMAIN player_probabilities'
                /\ player_probabilities'[id] =
                      MeanOfUpdates(state'.items, ArgMax(belief'[id]),
                                    previous_player_positions[id],
                                    player_probabilities[id])
                /\ Len(player_probabilities'[id]) = Len(state'.items)
                /\ Abs(SumSeq(player_probabilities'[id]) - Scale)
                      <= VectorTol(Len(state'.items))]_vars

\* ---- StalkerBot (SpecStalker)
\* the players other than the bot, and those of them nearest to the bot
OtherPlayers == DOMAIN call_args.state.players \ {call_args.player_id}
StalkerAt == call_args.state.players[call_args.player_id]
NearestPlayers ==
    {p \in OtherPlayers :
        \A q \in OtherPlayers :
            manhattan_distance(StalkerAt, call_args.state.players[p])
                <= manhattan_distance(StalkerAt, call_args.state.players[q])}

\* C24: with the bot and at least one other player on the board,
\* get_next_key returns a key that takes the bot closer to a player of the
\* smallest Manhattan distance to it, or SPACE when the bot is on that
\* player's cell, and SPACE in no other case.
C24_FollowsClosestPlayer ==
    (/\ call = "get_next_key"
     /\ call_args.player_id \in DOMAIN call_args.state.players
     /\ OtherPlayers # {}) =>
        /\ call_result.ok
        /\ \E p \in NearestPlayers :
              IF call_args.state.players[p] = StalkerAt
              THEN call_result.v = "SPACE"
              ELSE call_result.v \in Reducing(StalkerAt, call_args.state.players[p])

\* ---- AdvantageSeekingBot.get_logical_targets (SpecTargets)
TargetsCalled == call = "get_logical_targets"

\* the pairs (player, food) with a route, and the length of the route
Routes ==
    {pair \in (DOMAIN distances) \X (0..(Len(state.items) - 1)) :
        ~distances[pair[1]][pair[2]].is_none}
RouteLength(pair) == distances[pair[1]][pair[2]].distance

Assigned == {<<p, call_result[p]>> : p \in DOMAIN call_result}

\* C25: get_logical_targets returns an injective assignment of players to
\* food items they can reach; every pair with a route that is not assigned
\* has its player or its food assigned in a pair that is no longer (pairs
\* are taken in increasing distance order), so a pair of the smallest
\* distance is assigned; a player is left without an item only when every
\* item it can reach is assigned to another player.
C25_GreedyInjectiveAssignment ==
    TargetsCalled =>
        /\ DOMAIN call_result \subseteq DOMAIN state.players
        /\ Assigned \subseteq Routes
        /\ \A p, q \in DOMAIN call_result : p # q => call_result[p] # call_result[q]
        /\ \A pair \in Routes \ Assigned :
              \E taken \in Assigned :
                  /\ taken[1] = pair[1] \/ taken[2] = pair[2]
                  /\ RouteLength(taken) <= RouteLength(pair)
        /\ Routes # {} =>
              \E taken \in Assigned : \A pair \in Routes : RouteLength(taken) <= RouteLength(pair)
        /\ \A p \in DOMAIN state.players \ DOMAIN call_result :
              \A pair \in Routes :
                  pair[1] = p => \E q \in DOMAIN call_result : q # p /\ call_result[q] = pair[2]

\* two players whose nearest item is the same one: the nearer player gets
\* it and the other is assigned the item further away
C25_Witness ==
    /\ TargetsCalled
    /\ DOMAIN call_result = {1, 2}
    /\ \E p \in {1, 2} :
          \E pair \in Routes :
              /\ pair[1] = p
              /\ RouteLength(pair) < RouteLength(<<p, call_result[p]>>)

\* ---- ProbabilisticBot (SpecBots)
\* the largest entry of the tracked players' vectors, and the hypotheses
\* (1 the stag, 2 the first hare, 3 the second hare) that attain it
LargestEntry ==
    CHOOSE m \in {player_probabilities[id][k] : id \in DOMAIN player_probabilities, k \in 1..3} :
        \A id \in DOMAIN player_probabilities : \A k \in 1..3 : player_probabilities[id][k] <= m
LargestHypotheses ==
    {k \in 1..3 : \E id \in DOMAIN player_probabilities : player_probabilities[id][k] = LargestEntry}

\* the snapshot lists the three targets of update_probabilities, the bot and
\* a tracked player whose vector singles out one hypothesis
PursuesOne ==
    /\ bot_policy = "ProbabilisticBot"
    /\ rounds > 0
    /\ player_id \in DOMAIN state.players
    /\ StagPosition(state.items) # None
    /\ Len(HarePositions(state.items)) >= 2
    /\ player_probabilities # <<>>
    /\ Cardinality(LargestHypotheses) = 1

\* C26: the position ProbabilisticBot.get_next_key moves towards is the
\* position of the hypothesis (stag, first hare or second hare, as
\* update_probabilities indexes them) with the largest entry across the
\* tracked players' vectors.
C26_PursuesMostProbableTarget ==
    PursuesOne =>
        \A k \in LargestHypotheses :
            TargetPosition(Self, ProbabilisticBot_decide_action(Self))
                = Ok(Some(ThreeTargets(state.items)[k][2]))

\* ---- participate and the handlers (SpecLife)
\* the data that fulfil the quorum: on_signup with n = q, or a quorum
\* message with q = n
Fulfilling ==
    /\ handled # <<>>
    /\ handled.type \in {"signup", "quorum"}
    /\ handled.q = handled.n
    /\ handled.type = "quorum" => handled.has_q

\* C27: no move is published before the quorum is reached: _quorum_reached
\* becomes true only in on_signup with n = q or in handle_quorum with
\* q = n and is never reset, participate is past wait_for_quorum only when
\* it is true, and an overrecruited bot never publishes a move and, once
\* the quorum is reached, returns from participate straight from
\* wait_for_quorum.
C27_NoMoveBeforeQuorum ==
    /\ [](published # <<>> => _quorum_reached)
    /\ [](pc \notin {"sign_up", "wait_for_quorum"} => _quorum_reached)
    /\ [](_skip_experiment => published = <<>> /\ pc \in {"wait_for_quorum", "returned"})
    /\ [][_quorum_reached => _quorum_reached']_vars
    /\ [][(~_quorum_reached /\ _quorum_reached') => Fulfilling']_vars
    /\ (_skip_experiment /\ _quorum_reached) ~> (pc = "returned")

\* a bot that is past wait_for_quorum and has published a move
C27_Witness ==
    /\ published # <<>>
    /\ _quorum_reached
    /\ ~_skip_experiment
    /\ pc = "loop"

\* C28: once a stop message has been handled, and as long as no state
\* message puts remaining_time above 0.25, the rounds of participate publish
\* no move, whenever the stop message arrived.
C28_NoMoveAfterStop ==
    [][(stopped /\ stopped' /\ rounds' = rounds + 1) => published' = <<>>]_vars

\* ---- distance() as the walls change (SpecWalls)
\* what distance(origin, endpoint) is on the board with the walls w
DistanceWithin(w, origin, endpoint) ==
    LET maze == positions_to_maze(w, Rows, Cols)
    IN  distance_result(find_path_astar(maze, origin, endpoint, MAX_ITERATIONS,
                                        maze_to_graph(maze)))

\* C29: the maze and the graph that distance() uses are those of the walls
\* of the bot's current state: every query is answered as on the board
\* with the walls the state has at the time of the query, also after
\* handle_state has changed them.
C29_DistanceFollowsWalls ==
    [][queries' = queries + 1 /\ last_query' # <<>> /\ last_query' # last_query =>
          /\ _maze' = <<positions_to_maze(state'.walls, Rows, Cols)>>
          /\ last_result' = DistanceWithin(state'.walls, last_query'[1], last_query'[2])]_vars

\* ---- an agent lost from sight (SpecLost)
\* the cells to which a grid gives mass
Support(matrix) == {c \in Cells : matrix[c] > 0}

\* C30: after an agent was detected at cell c and then missed for n ticks
\* in a row, every cell with belief mass is a cell of the board within
\* Manhattan distance n of c, and every cell to which transition_update
\* gave mass at one undetected tick is given mass by it at the next.
C30_MassStaysWithinReach ==
    call = "update_beliefs" =>
        /\ DOMAIN call_result = Cells
        /\ \A c \in Support(call_result) :
              manhattan_distance(c, call_args.detected) <= call_args.undetected
        /\ call_args.predicted_before # <<>> =>
              Support(call_args.predicted_before) \subseteq Support(call_args.predicted)

\* an agent missed twice in a row whose belief has spread from the cell of
\* the detection but not over the whole board
C30_Witness ==
    /\ call = "update_beliefs"
    /\ call_args.undetected = 2
    /\ Support(call_result) \notin {{call_args.detected}, Cells}
    /\ Support(call_args.predicted_before) # Support(call_args.predicted)

====
